---- MODULE Spec2Model ----
(***************************************************************************)
(* State-machine model of the gesture rhythm game: ScoreManager,           *)
(* FallingObject / FallingObjectManager, CollisionDetector, Lane /         *)
(* LaneManager, the velocity tracking of HandTracker and the PLAYING tick  *)
(* of GameManager.update_gameplay.                                         *)
(*                                                                         *)
(* Units.  Pixel quantities are kept in half pixels (Scale = 2) so that    *)
(* the falling speeds 3.5 / 5.5 / 7.5 px per tick are integers; all the    *)
(* float sums of the source on these values are exact.  Game time is in    *)
(* milliseconds (pygame's Clock.tick returns whole milliseconds).  The     *)
(* combo multiplier is kept in tenths (12 stands for 1.2).                 *)
(***************************************************************************)
EXTENDS Integers, Sequences, FiniteSets, TLC

VARIABLES
    score_manager,       \* GameManager.score_manager : the ScoreManager fields
    stats,               \* result of the last get_stats_dict call
    current_difficulty,  \* GameManager.current_difficulty (the tier's name)
    objects,             \* FallingObjectManager.objects : list of notes
    removed,             \* history: flags of the notes purged from objects
    game_time,           \* GameManager.game_time, milliseconds
    state,               \* GameManager.state
    lanes,               \* LaneManager.lanes
    prev_fingertip_positions,  \* HandTracker.prev_fingertip_positions
    prev_chin_position,        \* HandTracker.prev_chin_position
    last_op,             \* history: the last operation, its arguments, result
    selected_difficulty, \* MenuScreen.selected_difficulty (a level name)
    generator,           \* the BeatmapGenerator of start_game
    run,                 \* the locals of the generate() call in progress
    rng,                 \* the random module: the draws of its seed, position
    returned,            \* history: the lists returned by generate() calls
    game_beatmap,        \* GameManager.beatmap
    running,             \* GameManager.running
    camera,              \* GameManager.camera : None or the VideoCapture
    pc,                  \* position of the main loop of GameManager.run
    countdown_time,      \* GameManager.countdown_time, milliseconds
    warmup_objects,      \* GameManager.warmup_objects
    warmup_completed,    \* GameManager.warmup_completed
    music_playing,       \* AudioManager.music_playing
    menu_screen,         \* MenuScreen: current_selection, should_start
    result_screen        \* ResultScreen: should_retry, should_menu

scoreVars == <<score_manager, stats>>
noteVars == <<current_difficulty, objects, removed>>
trackVars == <<lanes, prev_fingertip_positions, prev_chin_position>>
genVars == <<selected_difficulty, generator, run, rng, returned, game_beatmap>>
loopVars == <<running, countdown_time, warmup_objects, warmup_completed>>
uiVars == <<music_playing, menu_screen, result_screen>>
sessionVars == <<loopVars, uiVars, camera, pc>>
vars == <<score_manager, stats, current_difficulty, objects, removed,
          game_time, state, lanes, prev_fingertip_positions,
          prev_chin_position, last_op, selected_difficulty, generator, run,
          rng, returned, game_beatmap, running, camera, pc,
          countdown_time, warmup_objects, warmup_completed, music_playing,
          menu_screen, result_screen>>

(***************************************************************************)
(* Bounds of the model (not program constants).                            *)
(***************************************************************************)
MaxHits == 52        \* hits of one game in SpecScore
MaxOther == 2        \* GOOD hits, OK hits and misses of one game in SpecScore
MaxEvents == 1       \* draws of a random stream that are not 0.99
MaxRuns == 2         \* generate() calls on one generator
MaxLoops == 2        \* num_loops given to loop_beatmap
MaxFlashTime == 250  \* clock time up to which SpecFlash updates the lanes
MaxDropTime == 170   \* game time up to which SpecDrops plays
MaxTally == 5        \* notes judged (hit or missed) in SpecTally
MaxJudgeTicks == 2   \* ticks of SpecJudge after the unattended play
MaxPerfectIn == 8    \* perfect_count drawn in SpecAccuracy
MaxGameTime == 4000  \* milliseconds of game time explored by 17 ms frames
MaxNoFrameTime == 17 \* game time up to which camera.read may return no frame
MaxUnseenTime == 600 \* the same in SpecSessionLive, beyond the last spawn time
MaxOtherIn == 3      \* good/ok/miss counts drawn in SpecAccuracy

(***************************************************************************)
(* config/constants.py : scoring                                           *)
(***************************************************************************)
\* COMBO_MULTIPLIER.items() in sorted order; multipliers in tenths
COMBO_MULTIPLIER == << <<10, 12>>, <<20, 15>>, <<30, 20>>, <<50, 25>> >>

\* CollisionDetector.score_values
score_values == [r \in {"PERFECT", "GOOD", "OK", "MISS"} |->
                    CASE r = "PERFECT" -> 100
                      [] r = "GOOD"    -> 50
                      [] r = "OK"      -> 25
                      [] r = "MISS"    -> 0]

\* HitResult(success, rating, points, instrument)
HitResult(success, rating, points, instrument) ==
    [success |-> success, rating |-> rating, points |-> points,
     instrument |-> instrument]

(***************************************************************************)
(* ScoreManager                                                            *)
(***************************************************************************)
\* ScoreManager.__init__
ScoreManagerInit ==
    [score |-> 0, combo |-> 0, max_combo |-> 0, total_hits |-> 0,
     perfect_count |-> 0, good_count |-> 0, ok_count |-> 0, miss_count |-> 0,
     current_multiplier |-> 10]

Max(a, b) == IF a >= b THEN a ELSE b
Min(a, b) == IF a <= b THEN a ELSE b

\* the loop of _get_combo_multiplier over the sorted table, from entry i on
RECURSIVE MultiplierLoop(_, _, _)
MultiplierLoop(combo, i, applicable_multiplier) ==
    IF i > Len(COMBO_MULTIPLIER) THEN applicable_multiplier
    ELSE MultiplierLoop(combo, i + 1,
             IF combo >= COMBO_MULTIPLIER[i][1] THEN COMBO_MULTIPLIER[i][2]
             ELSE applicable_multiplier)

\* a slip in the threshold comparison
GetComboMultiplier_strict(combo) ==
    IF combo > 50 THEN 25 ELSE IF combo > 30 THEN 20
    ELSE IF combo > 20 THEN 15 ELSE IF combo > 10 THEN 12 ELSE 10

\* ScoreManager._get_combo_multiplier
GetComboMultiplier(combo) == MultiplierLoop(combo, 1, 10)

\* int(points * multiplier): the float product is exact to the tenth for
\* every points/multiplier pair of the game and int() truncates
IntOfProduct(points, multiplier) == (points * multiplier) \div 10

\* add_hit that takes the multiplier of the combo before the increment
add_hit_stale(sm, hit_result) ==
    IF ~hit_result.success THEN sm
    ELSE LET combo == sm.combo + 1
             mult  == GetComboMultiplier(sm.combo)
         IN [sm EXCEPT
               !.combo = combo,
               !.max_combo = Max(sm.max_combo, combo),
               !.total_hits = sm.total_hits + 1,
               !.perfect_count = IF hit_result.rating = "PERFECT" THEN @ + 1 ELSE @,
               !.good_count = IF hit_result.rating = "GOOD" THEN @ + 1 ELSE @,
               !.ok_count = IF hit_result.rating = "OK" THEN @ + 1 ELSE @,
               !.current_multiplier = mult,
               !.score = sm.score + IntOfProduct(hit_result.points, mult)]

\* add_hit that does not look at hit_result.success
add_hit_unchecked(sm, hit_result) ==
    LET combo == sm.combo + 1
        mult  == GetComboMultiplier(combo)
    IN [sm EXCEPT
          !.combo = combo,
          !.max_combo = Max(sm.max_combo, combo),
          !.total_hits = sm.total_hits + 1,
          !.perfect_count = IF hit_result.rating = "PERFECT" THEN @ + 1 ELSE @,
          !.good_count = IF hit_result.rating = "GOOD" THEN @ + 1 ELSE @,
          !.ok_count = IF hit_result.rating = "OK" THEN @ + 1 ELSE @,
          !.current_multiplier = mult,
          !.score = sm.score + IntOfProduct(hit_result.points, mult)]

\* ScoreManager.add_hit
add_hit(sm, hit_result) ==
    IF ~hit_result.success THEN sm
    ELSE LET combo == sm.combo + 1
             mult  == GetComboMultiplier(combo)
         IN [sm EXCEPT
               !.combo = combo,
               !.max_combo = Max(sm.max_combo, combo),
               !.total_hits = sm.total_hits + 1,
               !.perfect_count = IF hit_result.rating = "PERFECT" THEN @ + 1 ELSE @,
               !.good_count = IF hit_result.rating = "GOOD" THEN @ + 1 ELSE @,
               !.ok_count = IF hit_result.rating = "OK" THEN @ + 1 ELSE @,
               !.current_multiplier = mult,
               !.score = sm.score + IntOfProduct(hit_result.points, mult)]

\* add_miss that keeps the multiplier of the broken combo
add_miss_keepmult(sm) ==
    [sm EXCEPT !.combo = 0, !.miss_count = sm.miss_count + 1]

\* add_miss that also takes the high-water mark down
add_miss_clearmax(sm) ==
    [sm EXCEPT !.combo = 0, !.max_combo = 0,
               !.miss_count = sm.miss_count + 1, !.current_multiplier = 10]

\* ScoreManager.add_miss
add_miss(sm) ==
    [sm EXCEPT !.combo = 0, !.miss_count = sm.miss_count + 1,
               !.current_multiplier = 10]

\* ScoreManager.reset
reset(sm) == ScoreManagerInit

\* n calls of add_miss; n calls of add_hit with a result of one rating
RECURSIVE Misses(_, _)
Misses(sm, n) == IF n = 0 THEN sm ELSE Misses(add_miss(sm), n - 1)

RECURSIVE Hits(_, _, _)
Hits(sm, rating, n) ==
    IF n = 0 THEN sm
    ELSE Hits(add_hit(sm, HitResult(TRUE, rating, score_values[rating], "kick")),
              rating, n - 1)

(***************************************************************************)
(* IEEE-754 binary64 arithmetic, as far as get_accuracy uses it.           *)
(* A non-negative float is the natural number value * 2^FloatScale; every  *)
(* float of magnitude >= 2^-11 and < 2^53 is such a number.  Naturals are  *)
(* little-endian sequences of limbs in base LimbBase without leading zero  *)
(* limbs (<< >> is 0), since the numbers exceed the model checker's        *)
(* machine integers.                                                       *)
(***************************************************************************)
LimbBits == 12
LimbBase == 2^LimbBits
FloatScale == 64
MantissaBits == 53

RECURSIVE BigNorm(_)
BigNorm(a) ==
    IF a = << >> THEN a
    ELSE IF a[Len(a)] = 0 THEN BigNorm(SubSeq(a, 1, Len(a) - 1)) ELSE a

RECURSIVE BigFromInt(_)
BigFromInt(n) ==
    IF n = 0 THEN << >> ELSE <<n % LimbBase>> \o BigFromInt(n \div LimbBase)

Limb(a, i) == IF i <= Len(a) THEN a[i] ELSE 0

RECURSIVE BigAddFrom(_, _, _, _)
BigAddFrom(a, b, i, carry) ==
    IF i > Len(a) /\ i > Len(b)
    THEN (IF carry = 0 THEN << >> ELSE <<carry>>)
    ELSE LET t == Limb(a, i) + Limb(b, i) + carry
         IN <<t % LimbBase>> \o BigAddFrom(a, b, i + 1, t \div LimbBase)

BigAdd(a, b) == BigAddFrom(a, b, 1, 0)

RECURSIVE BigMulFrom(_, _, _, _)
BigMulFrom(a, k, i, carry) ==
    IF i > Len(a) THEN BigFromInt(carry)
    ELSE LET t == a[i] * k + carry
         IN <<t % LimbBase>> \o BigMulFrom(a, k, i + 1, t \div LimbBase)

\* a * k for a machine integer 0 <= k <= LimbBase
BigMulSmall(a, k) == BigNorm(BigMulFrom(a, k, 1, 0))

\* long division by a machine integer 0 < d <= LimbBase, most significant
\* limb first: <<quotient limbs (little-endian), remainder>>
RECURSIVE BigDivFrom(_, _, _, _, _)
BigDivFrom(a, d, i, rem, q) ==
    IF i = 0 THEN <<BigNorm(q), rem>>
    ELSE LET t == rem * LimbBase + a[i]
         IN BigDivFrom(a, d, i - 1, t % d, <<t \div d>> \o q)

BigDivSmall(a, d) == BigDivFrom(a, d, Len(a), 0, << >>)[1]
BigModSmall(a, d) == BigDivFrom(a, d, Len(a), 0, << >>)[2]

RECURSIVE BitLenInt(_)
BitLenInt(n) == IF n = 0 THEN 0 ELSE 1 + BitLenInt(n \div 2)

BigBitLen(a) ==
    IF a = << >> THEN 0 ELSE LimbBits * (Len(a) - 1) + BitLenInt(a[Len(a)])

\* a * 2^k
BigShl(a, k) ==
    IF a = << >> THEN a
    ELSE [i \in 1..(k \div LimbBits) |-> 0] \o BigMulSmall(a, 2^(k % LimbBits))

\* floor(a / 2^k)
BigShr(a, k) ==
    IF k \div LimbBits >= Len(a) THEN << >>
    ELSE BigDivSmall(SubSeq(a, (k \div LimbBits) + 1, Len(a)), 2^(k % LimbBits))

\* -1, 0, 1 as a < b, a = b, a > b (both normalised)
RECURSIVE BigCmpFrom(_, _, _)
BigCmpFrom(a, b, i) ==
    IF i = 0 THEN 0
    ELSE IF a[i] < b[i] THEN -1
    ELSE IF a[i] > b[i] THEN 1
    ELSE BigCmpFrom(a, b, i - 1)

BigCmp(a, b) ==
    IF Len(a) < Len(b) THEN -1
    ELSE IF Len(a) > Len(b) THEN 1
    ELSE BigCmpFrom(a, b, Len(a))

BigGeq(a, b) == BigCmp(a, b) >= 0

\* round the exact value a + (a fraction > 0 iff sticky) to MantissaBits
\* significant bits, round-half-to-even
RoundNearestEven(a, sticky) ==
    LET len == BigBitLen(a)
        s   == len - MantissaBits
    IN IF s <= 0 THEN a
       ELSE LET q       == BigShr(a, s)
                q1      == BigShr(a, s - 1)
                halfbit == Limb(q1, 1) % 2
                below   == sticky \/ BigShl(q1, s - 1) # a
                odd     == Limb(q, 1) % 2 = 1
                up      == halfbit = 1 /\ (below \/ odd)
            IN BigShl(IF up THEN BigAdd(q, <<1>>) ELSE q, s)

\* float(n) of a Python int n (exact for the small counters of the game)
FloatOfInt(n) == BigShl(BigFromInt(n), FloatScale)

\* the literals 0.7 = 0x1.6666666666666p-1 and 0.4 = 0x1.999999999999ap-2
Float_0_7 == BigShl(<<1638, 1638, 1638, 1638, 22>>, FloatScale - 53)
Float_0_4 == BigShl(<<2458, 2457, 2457, 2457, 25>>, FloatScale - 54)

\* x + y on floats
FloatAdd(x, y) == RoundNearestEven(BigAdd(x, y), FALSE)

\* n * x for a Python int n and a float x (n is converted exactly)
FloatMulInt(x, n) == RoundNearestEven(BigMulSmall(x, n), FALSE)

\* x / n for a float x and a Python int n > 0
FloatDivInt(x, n) ==
    LET wide == BigShl(x, FloatScale)
        q    == BigDivSmall(wide, n)
        r    == BigModSmall(wide, n)
    IN BigShr(RoundNearestEven(q, r # 0), FloatScale)

RECURSIVE BigSubFrom(_, _, _, _)
BigSubFrom(a, b, i, borrow) ==
    IF i > Len(a) THEN << >>
    ELSE LET t == a[i] - Limb(b, i) - borrow
         IN <<t % LimbBase>>
            \o BigSubFrom(a, b, i + 1, IF t < 0 THEN 1 ELSE 0)
\* a - b for a >= b
BigSub(a, b) == BigNorm(BigSubFrom(a, b, 1, 0))
\* x - y on floats x >= 0, y >= 0: the sign and the magnitude of the result
FloatSub(x, y) ==
    IF BigGeq(x, y)
    THEN [negative |-> FALSE, magnitude |-> RoundNearestEven(BigSub(x, y), FALSE)]
    ELSE [negative |-> TRUE, magnitude |-> RoundNearestEven(BigSub(y, x), FALSE)]
\* the literal 0.2 = 0x1.999999999999ap-3
Float_0_2 == BigShl(<<2458, 2457, 2457, 2457, 25>>, FloatScale - 55)
\* Clock.tick(60) of a frame that is on time, in milliseconds
FrameMs == 17
\* Clock.tick of late frames (20 and 10 frames per second)
LateMs == 50
SlowMs == 100
\* Clock.tick of a frame during which the process was held up for a minute
StallMs == 60000
\* clock.tick(fps) / 1000.0 : milliseconds (an int) to seconds (a float),
\* for the frame times above
SecondsOfDt ==
    [ms \in {FrameMs, LateMs, SlowMs, StallMs} |->
        FloatDivInt(FloatOfInt(ms), 1000)]
Seconds(ms) == SecondsOfDt[ms]
\* the float 0.0
FloatZero == [negative |-> FALSE, magnitude |-> << >>]

\* min(100.0, accuracy)
FloatMin(x, y) == IF BigCmp(y, x) < 0 THEN y ELSE x

\* ScoreManager.get_accuracy
get_accuracy(sm) ==
    LET total_notes == sm.total_hits + sm.miss_count
    IN IF total_notes = 0 THEN << >>
       ELSE LET weighted_hits ==
                    FloatAdd(FloatAdd(FloatMulInt(FloatOfInt(1), sm.perfect_count),
                                      FloatMulInt(Float_0_7, sm.good_count)),
                             FloatMulInt(Float_0_4, sm.ok_count))
                accuracy == FloatMulInt(FloatDivInt(weighted_hits, total_notes), 100)
            IN FloatMin(FloatOfInt(100), accuracy)

\* ScoreManager.get_rank
get_rank(sm) ==
    LET accuracy == get_accuracy(sm)
    IN IF BigGeq(accuracy, FloatOfInt(95)) THEN "S"
       ELSE IF BigGeq(accuracy, FloatOfInt(85)) THEN "A"
       ELSE IF BigGeq(accuracy, FloatOfInt(70)) THEN "B"
       ELSE IF BigGeq(accuracy, FloatOfInt(50)) THEN "C"
       ELSE "D"

\* ScoreManager.get_stats_dict, the two derived entries
get_stats_dict(sm) == [accuracy |-> get_accuracy(sm), rank |-> get_rank(sm)]

(***************************************************************************)
(* config/settings.py : DifficultySettings; config/constants.py : notes    *)
(***************************************************************************)
Scale == 2
Px(n) == n * Scale

DifficultyNames == {"EASY", "MEDIUM", "HARD"}

\* DifficultySettings.EASY
EASY ==
    [name |-> "EASY", pattern_type |-> "simple", pattern_variation |-> 10,
     falling_speed |-> 7, perfect_window |-> Px(100),
     good_window |-> Px(180), ok_window |-> Px(280)]

\* a MEDIUM tier whose good window is no wider than its perfect window
MEDIUM_flat ==
    [name |-> "MEDIUM", pattern_type |-> "smart", pattern_variation |-> 30,
     falling_speed |-> 11, perfect_window |-> Px(80),
     good_window |-> Px(80), ok_window |-> Px(230)]

\* DifficultySettings.MEDIUM
MEDIUM ==
    [name |-> "MEDIUM", pattern_type |-> "smart", pattern_variation |-> 30,
     falling_speed |-> 11, perfect_window |-> Px(80),
     good_window |-> Px(150), ok_window |-> Px(230)]

\* DifficultySettings.HARD
HARD ==
    [name |-> "HARD", pattern_type |-> "complex", pattern_variation |-> 50,
     falling_speed |-> 15, perfect_window |-> Px(60),
     good_window |-> Px(120), ok_window |-> Px(180)]

\* DifficultySettings.get_difficulty
get_difficulty(level) ==
    IF level = "EASY" THEN EASY
    ELSE IF level = "MEDIUM" THEN MEDIUM
    ELSE IF level = "HARD" THEN HARD
    ELSE MEDIUM

ZONE_Y_SIDE == 400
OBJECT_SPAWN_Y == Px(-100)
\* the target line read by FallingObject (the side-lane value ZONE_Y_SIDE - 20)
OBJECT_TARGET_Y == Px(ZONE_Y_SIDE - 20)
\* "passed target zone": OBJECT_TARGET_Y + 100
MissDistance == Px(100)
\* get_objects_in_hit_zone: abs(distance) < 150
HitZoneDistance == Px(150)
AlphaStart == 255
AlphaStep == 15

(***************************************************************************)
(* FallingObject / FallingObjectManager                                    *)
(***************************************************************************)
\* FallingObject.__init__ (id is the identity of the Python object; the
\* scale of the fade animation is presentational and left out)
FallingObject(id, instrument, spawn_time, falling_speed) ==
    [id |-> id, instrument |-> instrument, spawn_time |-> spawn_time,
     falling_speed |-> falling_speed, y |-> OBJECT_SPAWN_Y,
     is_spawned |-> FALSE, is_hit |-> FALSE, is_missed |-> FALSE,
     is_dead |-> FALSE, alpha |-> AlphaStart]

\* FallingObject.get_distance_from_target
get_distance_from_target(obj) == obj.y - OBJECT_TARGET_Y

Abs(n) == IF n < 0 THEN -n ELSE n

\* an update that misses a note although it has been hit
FallingObject_update_misshit(obj, dt, current_time) ==
    LET spawned == obj.is_spawned \/ current_time >= obj.spawn_time
    IN IF spawned /\ ~obj.is_dead
       THEN LET y      == obj.y + obj.falling_speed
                missed == y > OBJECT_TARGET_Y + MissDistance
                alpha  == IF obj.is_hit THEN Max(0, obj.alpha - AlphaStep)
                          ELSE obj.alpha
            IN [obj EXCEPT !.is_spawned = TRUE, !.y = y,
                           !.is_missed = @ \/ missed,
                           !.alpha = alpha,
                           !.is_dead = missed \/ (obj.is_hit /\ alpha <= 0)]
       ELSE [obj EXCEPT !.is_spawned = spawned]

\* an update in which a hit note is dead one step before its alpha is 0
FallingObject_update_early(obj, dt, current_time) ==
    LET spawned == obj.is_spawned \/ current_time >= obj.spawn_time
    IN IF spawned /\ ~obj.is_dead
       THEN LET y      == obj.y + obj.falling_speed
                missed == y > OBJECT_TARGET_Y + MissDistance /\ ~obj.is_hit
                alpha  == IF obj.is_hit THEN Max(0, obj.alpha - AlphaStep)
                          ELSE obj.alpha
            IN [obj EXCEPT !.is_spawned = TRUE, !.y = y,
                           !.is_missed = @ \/ missed,
                           !.alpha = alpha,
                           !.is_dead = missed
                                       \/ (obj.is_hit /\ alpha <= AlphaStep)]
       ELSE [obj EXCEPT !.is_spawned = spawned]

\* an update that does not wait for the spawn time
FallingObject_update_nowait(obj, dt, current_time) ==
    IF ~obj.is_dead
    THEN LET y      == obj.y + obj.falling_speed
             missed == y > OBJECT_TARGET_Y + MissDistance /\ ~obj.is_hit
             alpha  == IF obj.is_hit THEN Max(0, obj.alpha - AlphaStep)
                       ELSE obj.alpha
         IN [obj EXCEPT !.is_spawned = TRUE, !.y = y,
                        !.is_missed = @ \/ missed,
                        !.alpha = alpha,
                        !.is_dead = missed \/ (obj.is_hit /\ alpha <= 0)]
    ELSE obj

\* FallingObject.update
FallingObject_update(obj, dt, current_time) ==
    LET spawned == obj.is_spawned \/ current_time >= obj.spawn_time
    IN IF spawned /\ ~obj.is_dead
       THEN LET y      == obj.y + obj.falling_speed
                missed == y > OBJECT_TARGET_Y + MissDistance /\ ~obj.is_hit
                alpha  == IF obj.is_hit THEN Max(0, obj.alpha - AlphaStep)
                          ELSE obj.alpha
            IN [obj EXCEPT !.is_spawned = TRUE, !.y = y,
                           !.is_missed = @ \/ missed,
                           !.alpha = alpha,
                           !.is_dead = missed \/ (obj.is_hit /\ alpha <= 0)]
       ELSE [obj EXCEPT !.is_spawned = spawned]

\* FallingObject.mark_hit
mark_hit(obj) == [obj EXCEPT !.is_hit = TRUE]

\* FallingObjectManager.__init__ : one object per beatmap entry
RECURSIVE CreateObjects(_, _, _)
CreateObjects(beatmap, falling_speed, i) ==
    IF i > Len(beatmap) THEN << >>
    ELSE <<FallingObject(i, beatmap[i][2], beatmap[i][1], falling_speed)>>
         \o CreateObjects(beatmap, falling_speed, i + 1)

FallingObjectManager(beatmap, falling_speed) ==
    CreateObjects(beatmap, falling_speed, 1)

\* the first loop of FallingObjectManager.update
UpdateAll(objs, dt, current_time) ==
    [i \in 1..Len(objs) |-> FallingObject_update(objs[i], dt, current_time)]

IsAlive(obj) == ~obj.is_dead

\* FallingObjectManager.update : update every object, purge the dead ones
FallingObjectManager_update(objs, dt, current_time) ==
    SelectSeq(UpdateAll(objs, dt, current_time), IsAlive)

\* the flags of the objects a manager update purges
Flags(obj) ==
    [id |-> obj.id, is_hit |-> obj.is_hit, is_missed |-> obj.is_missed,
     is_dead |-> obj.is_dead]

Purged(objs, dt, current_time) ==
    {Flags(UpdateAll(objs, dt, current_time)[i]) :
        i \in {j \in 1..Len(objs) : UpdateAll(objs, dt, current_time)[j].is_dead}}

\* an active-object test that keeps the notes that have been hit
IsActive_hit(obj) == obj.is_spawned /\ ~obj.is_dead

IsActive(obj) == obj.is_spawned /\ ~obj.is_dead /\ ~obj.is_hit

\* FallingObjectManager.get_active_objects
get_active_objects(objs) == SelectSeq(objs, IsActive)

InHitZone(obj) == Abs(get_distance_from_target(obj)) < HitZoneDistance

\* a hit-zone query that returns every active object
get_objects_in_hit_zone_all(objs) == get_active_objects(objs)

\* FallingObjectManager.get_objects_in_hit_zone
get_objects_in_hit_zone(objs) == SelectSeq(get_active_objects(objs), InHitZone)

(***************************************************************************)
(* CollisionDetector                                                       *)
(***************************************************************************)
None == [none |-> TRUE]

\* CollisionDetector.__init__
CollisionDetector(perfect_window, good_window, ok_window) ==
    [perfect_window |-> perfect_window, good_window |-> good_window,
     ok_window |-> ok_window]

\* GameManager.start_game : the detector of the selected difficulty
DetectorOf(difficulty) ==
    CollisionDetector(get_difficulty(difficulty).perfect_window,
                      get_difficulty(difficulty).good_window,
                      get_difficulty(difficulty).ok_window)

\* a rating with exclusive window bounds
calculate_rating_exclusive(self, distance) ==
    IF distance < self.perfect_window THEN "PERFECT"
    ELSE IF distance < self.good_window THEN "GOOD"
    ELSE IF distance < self.ok_window THEN "OK"
    ELSE "MISS"

\* CollisionDetector._calculate_rating
calculate_rating(self, distance) ==
    IF distance <= self.perfect_window THEN "PERFECT"
    ELSE IF distance <= self.good_window THEN "GOOD"
    ELSE IF distance <= self.ok_window THEN "OK"
    ELSE "MISS"

\* feedback_map of CollisionDetector.get_timing_feedback (message, RGB)
feedback_map ==
    [PERFECT |-> [text |-> "PERFECT!", color |-> <<46, 204, 113>>],
     GOOD    |-> [text |-> "GOOD!", color |-> <<52, 152, 219>>],
     OK      |-> [text |-> "OK", color |-> <<241, 196, 15>>],
     MISS    |-> [text |-> "MISS", color |-> <<231, 76, 60>>]]

\* CollisionDetector.get_timing_feedback
get_timing_feedback(self, distance) ==
    feedback_map[calculate_rating(self, distance)]

\* GameScreen.show_feedback : the text and the colour on display (the
\* feedback stays for 500 ms)
show_feedback(text, color) ==
    [feedback_text |-> text, feedback_color |-> color]

\* update_gameplay, "Visual feedback": the show_feedback call of each hit
RECURSIVE ShowFeedbacks(_, _, _)
ShowFeedbacks(self, hit_results, i) ==
    IF i > Len(hit_results) THEN << >>
    ELSE <<show_feedback(hit_results[i].rating,
                         get_timing_feedback(self, 0).color)>>
         \o ShowFeedbacks(self, hit_results, i + 1)

\* a check_hit that judges whether or not the lane is active
check_hit_anylane(self, falling_object, hand_in_lane) ==
    IF falling_object.is_hit \/ falling_object.is_missed
    THEN [result |-> None, object |-> falling_object]
    ELSE LET distance == Abs(get_distance_from_target(falling_object))
             rating   == calculate_rating(self, distance)
         IN IF rating = "MISS"
            THEN [result |-> None, object |-> falling_object]
            ELSE [result |-> HitResult(TRUE, rating, score_values[rating],
                                       falling_object.instrument),
                  object |-> mark_hit(falling_object)]

\* CollisionDetector.check_hit : the returned HitResult (or None) and the
\* falling object as the call leaves it
check_hit(self, falling_object, hand_in_lane) ==
    IF ~hand_in_lane
    THEN [result |-> None, object |-> falling_object]
    ELSE IF falling_object.is_hit \/ falling_object.is_missed
    THEN [result |-> None, object |-> falling_object]
    ELSE LET distance == Abs(get_distance_from_target(falling_object))
             rating   == calculate_rating(self, distance)
         IN IF rating = "MISS"
            THEN [result |-> None, object |-> falling_object]
            ELSE [result |-> HitResult(TRUE, rating, score_values[rating],
                                       falling_object.instrument),
                  object |-> mark_hit(falling_object)]

\* CollisionDetector.check_multiple_objects on the manager's list objs, the
\* objects handed in being those of objs whose id is in zone_ids: the list
\* of hit results in iteration order and the list as the calls leave it
RECURSIVE CheckLoop(_, _, _, _, _, _)
CheckLoop(self, objs, zone_ids, active_lanes, i, hit_results) ==
    IF i > Len(objs) THEN [hit_results |-> hit_results, objects |-> objs]
    ELSE IF objs[i].id \notin zone_ids
    THEN CheckLoop(self, objs, zone_ids, active_lanes, i + 1, hit_results)
    ELSE LET hand_in_lane == objs[i].instrument \in DOMAIN active_lanes
             r == check_hit(self, objs[i], hand_in_lane)
         IN CheckLoop(self, [objs EXCEPT ![i] = r.object], zone_ids,
                      active_lanes, i + 1,
                      IF r.result # None THEN Append(hit_results, r.result)
                      ELSE hit_results)

Ids(objs) == {objs[i].id : i \in 1..Len(objs)}

\* a check_multiple_objects that stops at the first hit
RECURSIVE CheckLoop_first(_, _, _, _, _, _)
CheckLoop_first(self, objs, zone_ids, active_lanes, i, hit_results) ==
    IF i > Len(objs) \/ hit_results # << >>
    THEN [hit_results |-> hit_results, objects |-> objs]
    ELSE IF objs[i].id \notin zone_ids
    THEN CheckLoop_first(self, objs, zone_ids, active_lanes, i + 1, hit_results)
    ELSE LET hand_in_lane == objs[i].instrument \in DOMAIN active_lanes
             r == check_hit(self, objs[i], hand_in_lane)
         IN CheckLoop_first(self, [objs EXCEPT ![i] = r.object], zone_ids,
                            active_lanes, i + 1,
                            IF r.result # None THEN Append(hit_results, r.result)
                            ELSE hit_results)

check_multiple_objects_first(self, objs, zone_ids, active_lanes) ==
    CheckLoop_first(self, objs, zone_ids, active_lanes, 1, << >>)

check_multiple_objects(self, objs, zone_ids, active_lanes) ==
    CheckLoop(self, objs, zone_ids, active_lanes, 1, << >>)


(***************************************************************************)
(* HandTracker: projections and velocity tracking.                         *)
(* A landmark of the detector is a pair of normalised coordinates, kept in *)
(* units of 1 / LandmarkDen: with a power of two as denominator the float  *)
(* products of the source are exact and int() is the floor.  A dict is a   *)
(* sequence of <<key, value>> pairs in insertion order.                    *)
(***************************************************************************)
SCREEN_WIDTH == 1280
SCREEN_HEIGHT == 720
TOPBAR_HEIGHT == 80
LandmarkDen == 2048
zone_size == 40
velocity_threshold == 15

Landmark(x, y) == [x |-> x, y |-> y]

\* the collision zone of a landmark (X inverted), as get_fingertip_positions
\* and get_chin_position build it
CollisionZone(lm, screen_width, screen_height) ==
    LET tip_x == ((LandmarkDen - lm.x) * screen_width) \div LandmarkDen
        tip_y == (lm.y * (screen_height - TOPBAR_HEIGHT)) \div LandmarkDen
                   + TOPBAR_HEIGHT
    IN [x |-> tip_x - zone_size \div 2, y |-> tip_y - zone_size \div 2,
        width |-> zone_size, height |-> zone_size,
        center_x |-> tip_x, center_y |-> tip_y]

DictHas(d, key) == \E i \in 1..Len(d) : d[i][1] = key
DictGet(d, key) == d[CHOOSE i \in 1..Len(d) : d[i][1] = key][2]
\* d[key] = value : a present key keeps its place, a new one goes last
DictSet(d, key, value) ==
    IF DictHas(d, key)
    THEN [i \in 1..Len(d) |-> IF d[i][1] = key THEN <<key, value>> ELSE d[i]]
    ELSE Append(d, <<key, value>>)

\* HandTracker.get_fingertip_positions : results is the sequence of detected
\* hands, each a label and its index-fingertip landmark
RECURSIVE get_fingertip_positions(_, _, _)
get_fingertip_positions(results, screen_width, screen_height) ==
    IF results = << >> THEN << >>
    ELSE LET n == Len(results)
         IN DictSet(get_fingertip_positions(SubSeq(results, 1, n - 1),
                                            screen_width, screen_height),
                    results[n].label,
                    CollisionZone(results[n].index_tip, screen_width,
                                  screen_height))

\* HandTracker.get_chin_position : face_results is None or the chin landmark
get_chin_position(face_results, screen_width, screen_height) ==
    IF face_results = None THEN None
    ELSE CollisionZone(face_results, screen_width, screen_height)

\* a display point that is the exact mirror image of the collision point
VisualPoint_mirror(lm, screen_width, screen_height) ==
    [center_x |-> screen_width
                    - ((LandmarkDen - lm.x) * screen_width) \div LandmarkDen,
     center_y |-> (lm.y * (screen_height - TOPBAR_HEIGHT)) \div LandmarkDen
                    + TOPBAR_HEIGHT]

\* the display point of a landmark (X not inverted), as get_fingertip_visuals
\* and get_chin_visual build it
VisualPoint(lm, screen_width, screen_height) ==
    [center_x |-> (lm.x * screen_width) \div LandmarkDen,
     center_y |-> (lm.y * (screen_height - TOPBAR_HEIGHT)) \div LandmarkDen
                    + TOPBAR_HEIGHT]

\* HandTracker.get_fingertip_visuals
RECURSIVE get_fingertip_visuals(_, _, _)
get_fingertip_visuals(results, screen_width, screen_height) ==
    IF results = << >> THEN << >>
    ELSE LET n == Len(results)
         IN DictSet(get_fingertip_visuals(SubSeq(results, 1, n - 1),
                                          screen_width, screen_height),
                    results[n].label,
                    VisualPoint(results[n].index_tip, screen_width,
                                screen_height))

\* HandTracker.get_chin_visual
get_chin_visual(face_results, screen_width, screen_height) ==
    IF face_results = None THEN None
    ELSE VisualPoint(face_results, screen_width, screen_height)

\* (dx**2 + dy**2) ** 0.5 is kept as its square dx**2 + dy**2, an integer;
\* speed >= threshold is square >= threshold ** 2
SquaredSpeed(curr, prev) ==
    (curr.center_x - prev.center_x) * (curr.center_x - prev.center_x)
    + (curr.center_y - prev.center_y) * (curr.center_y - prev.center_y)

\* HandTracker.calculate_velocity (squares of the velocities)
calculate_velocity(current_positions, previous_positions) ==
    [i \in 1..Len(current_positions) |->
        LET hand_label == current_positions[i][1]
        IN <<hand_label,
             IF DictHas(previous_positions, hand_label)
             THEN SquaredSpeed(current_positions[i][2],
                               DictGet(previous_positions, hand_label))
             ELSE 0>>]

\* HandTracker.calculate_chin_velocity (square of the velocity)
calculate_chin_velocity(current_position, previous_position) ==
    IF previous_position = None THEN 0
    ELSE SquaredSpeed(current_position, previous_position)

\* an update_velocity_tracking that keeps the history of a frame that
\* detected nothing
update_velocity_tracking_keep(fingertip_positions, chin_position) ==
    [prev_fingertip_positions |->
        IF fingertip_positions # << >> THEN fingertip_positions
        ELSE prev_fingertip_positions,
     prev_chin_position |->
        IF chin_position # None THEN chin_position ELSE prev_chin_position]

\* HandTracker.update_velocity_tracking : the two histories it leaves
update_velocity_tracking(fingertip_positions, chin_position) ==
    [prev_fingertip_positions |->
        IF fingertip_positions # << >> THEN fingertip_positions ELSE << >>,
     prev_chin_position |->
        IF chin_position # None THEN chin_position ELSE None]

(***************************************************************************)
(* Lane / LaneManager                                                      *)
(***************************************************************************)
ZONE_WIDTH == 160
ZONE_HEIGHT == 110
ZONE_Y_CENTER == 280

KICK_ZONE ==
    [x |-> 1010, y |-> ZONE_Y_SIDE, width |-> ZONE_WIDTH,
     height |-> ZONE_HEIGHT, instrument |-> "kick"]
HIHAT_ZONE ==
    [x |-> 530, y |-> ZONE_Y_CENTER, width |-> ZONE_WIDTH,
     height |-> ZONE_HEIGHT, instrument |-> "hihat"]
SNARE_ZONE ==
    [x |-> 50, y |-> ZONE_Y_SIDE, width |-> ZONE_WIDTH,
     height |-> ZONE_HEIGHT, instrument |-> "snare"]
ZONES == <<KICK_ZONE, HIHAT_ZONE, SNARE_ZONE>>

\* the 200 ms flash of trigger_hit, milliseconds
\* Lane.__init__ (the glow intensity is presentational and left out)
Lane(zone_config) ==
    [x |-> zone_config.x, y |-> zone_config.y, width |-> zone_config.width,
     height |-> zone_config.height, instrument |-> zone_config.instrument,
     is_active |-> FALSE, is_hit |-> FALSE, hit_timer |-> FloatZero]

\* LaneManager.__init__
LaneManager == [i \in 1..Len(ZONES) |-> Lane(ZONES[i])]

\* pygame.Rect.colliderect
colliderect(a, b) ==
    /\ a.x < b.x + b.width
    /\ a.y < b.y + b.height
    /\ a.x + a.width > b.x
    /\ a.y + a.height > b.y

\* Lane.check_hand_collision
check_hand_collision(lane, hand_bbox) == colliderect(lane, hand_bbox)

\* an activate that only ever switches a lane on
activate_sticky(lane, active) == [lane EXCEPT !.is_active = @ \/ active]

\* Lane.activate
activate(lane, active) == [lane EXCEPT !.is_active = active]

\* Lane.trigger_hit
trigger_hit(lane) ==
    [lane EXCEPT !.is_hit = TRUE,
                 !.hit_timer = [negative |-> FALSE, magnitude |-> Float_0_2]]

\* an update in which the end of the flash deactivates the lane
Lane_update_release(lane, dt) ==
    IF lane.is_hit
    THEN LET t == FloatSub(lane.hit_timer.magnitude, Seconds(dt))
         IN [lane EXCEPT !.hit_timer = t,
                         !.is_hit = ~(t.negative \/ t.magnitude = << >>),
                         !.is_active = @ /\ ~(t.negative \/ t.magnitude = << >>)]
    ELSE lane

\* Lane.update (dt in milliseconds; hit_timer is a float of seconds, which
\* is positive while is_hit)
Lane_update(lane, dt) ==
    IF lane.is_hit
    THEN LET t == FloatSub(lane.hit_timer.magnitude, Seconds(dt))
         IN [lane EXCEPT !.hit_timer = t,
                         !.is_hit = ~(t.negative \/ t.magnitude = << >>)]
    ELSE lane

\* LaneManager.update
LaneManager_update(lanes_, dt) ==
    [i \in 1..Len(lanes_) |-> Lane_update(lanes_[i], dt)]

\* "no control activates the lane"
NoControl == "none"

\* the fingertip loop of check_collisions_with_velocity for one lane, from
\* entry i of the dict on: NoControl or the label that activates the lane
RECURSIVE FingertipLoop(_, _, _, _, _)
FingertipLoop(lane, fingertip_positions, fingertip_velocities, threshold, i) ==
    IF i > Len(fingertip_positions) THEN NoControl
    ELSE LET hand_label == fingertip_positions[i][1]
         IN IF /\ check_hand_collision(lane, fingertip_positions[i][2])
               /\ DictHas(fingertip_velocities, hand_label)
               /\ DictGet(fingertip_velocities, hand_label)
                    >= threshold * threshold
            THEN hand_label
            ELSE FingertipLoop(lane, fingertip_positions, fingertip_velocities,
                               threshold, i + 1)

\* an activation that lets the chin play every lane
ActivatingControl_anychin(lane, fingertip_positions, chin_position, fingertip_velocities, chin_velocity, threshold) ==
    IF /\ chin_position # None
       /\ check_hand_collision(lane, chin_position)
       /\ chin_velocity >= threshold * threshold
    THEN "Chin"
    ELSE IF lane.instrument = "hihat" THEN NoControl
    ELSE FingertipLoop(lane, fingertip_positions, fingertip_velocities,
                       threshold, 1)

\* an activation that forgets the velocity gate of the fingertips
ActivatingControl_nogate(lane, fingertip_positions, chin_position, fingertip_velocities, chin_velocity, threshold) ==
    IF lane.instrument = "hihat"
    THEN IF /\ chin_position # None
            /\ check_hand_collision(lane, chin_position)
            /\ chin_velocity >= threshold * threshold
         THEN "Chin" ELSE NoControl
    ELSE FingertipLoop(lane, fingertip_positions, fingertip_velocities, 0, 1)

\* the body of the lane loop of check_collisions_with_velocity: NoControl or the
\* control that activates the lane in this frame
ActivatingControl(lane, fingertip_positions, chin_position, fingertip_velocities, chin_velocity, threshold) ==
    IF lane.instrument = "hihat"
    THEN IF /\ chin_position # None
            /\ check_hand_collision(lane, chin_position)
            /\ chin_velocity >= threshold * threshold
         THEN "Chin" ELSE NoControl
    ELSE FingertipLoop(lane, fingertip_positions, fingertip_velocities,
                       threshold, 1)

\* LaneManager.check_collisions_with_velocity : the returned dict
\* {instrument: label} (as a function on the active instruments) and the
\* lanes as the activate calls leave them
check_collisions_with_velocity(lanes_, fingertip_positions, chin_position, fingertip_velocities, chin_velocity, threshold) ==
    LET control(i) == ActivatingControl(lanes_[i], fingertip_positions,
                          chin_position, fingertip_velocities, chin_velocity,
                          threshold)
        act == {i \in 1..Len(lanes_) : control(i) # NoControl}
    IN [active_lanes |->
            [inst \in {lanes_[i].instrument : i \in act} |->
                control(CHOOSE i \in act : lanes_[i].instrument = inst)],
        lanes |-> [i \in 1..Len(lanes_) |-> activate(lanes_[i], i \in act)]]

\* LaneManager.get_lane_by_instrument, as the index of the lane
get_lane_by_instrument(lanes_, instrument) ==
    CHOOSE i \in 1..Len(lanes_) : lanes_[i].instrument = instrument

(***************************************************************************)
(* SpecScore: a ScoreManager driven by any sequence of add_hit, add_miss   *)
(* and reset.                                                              *)
(***************************************************************************)
NoStats == [accuracy |-> << >>, rank |-> "none"]

\* the HitResult objects check_hit builds, and an unsuccessful one; add_hit
\* does not read the instrument
HitResults ==
    {HitResult(TRUE, r, score_values[r], "kick") :
        r \in {"PERFECT", "GOOD", "OK"}}
    \cup {HitResult(FALSE, "MISS", 0, "kick")}

\* the parts of the game a specification does not exercise
NoTracking ==
    /\ lanes = LaneManager
    /\ prev_fingertip_positions = << >>
    /\ prev_chin_position = None

\* no beatmap generation: the state before start_game creates a generator
NoGenerator == [pattern_type |-> "none"]
NoRun == [pc |-> "idle", beat_count |-> 0, timestamp |-> 0, beatmap |-> << >>]

NoBeatmap ==
    /\ selected_difficulty = "MEDIUM"
    /\ generator = NoGenerator
    /\ run = NoRun
    /\ rng = [draws |-> << >>, pos |-> 1]
    /\ returned = << >>
    /\ game_beatmap = << >>

\* GameManager.__init__ : countdown_time = 3.0
COUNTDOWN_TIME == 3000

\* a camera handle that is kept at the end of a session
Released_kept == [opened |-> TRUE]

\* end_game, return_to_menu, cleanup: camera.release(), camera = None
Released == None

\* MenuScreen.difficulties
difficulties == <<"EASY", "MEDIUM", "HARD">>

\* MenuScreen.__init__ (selected_difficulty, 'MEDIUM', is a variable of its
\* own)
MenuScreenInit == [current_selection |-> 1, should_start |-> FALSE]

\* MenuScreen.reset
MenuScreen_reset(menu) ==
    [menu EXCEPT !.should_start = FALSE, !.current_selection = 1]

\* ResultScreen.__init__
ResultScreenInit == [should_retry |-> FALSE, should_menu |-> FALSE]

\* ResultScreen.reset
ResultScreen_reset(result) ==
    [result EXCEPT !.should_retry = FALSE, !.should_menu = FALSE]

\* GameManager.__init__ : the main loop is about to start, no camera
NotStarted ==
    /\ running = TRUE
    /\ music_playing = FALSE
    /\ menu_screen = MenuScreenInit
    /\ result_screen = ResultScreenInit
    /\ camera = None
    /\ pc = "events"
    /\ countdown_time = COUNTDOWN_TIME
    /\ warmup_objects = None
    /\ warmup_completed = FALSE

NoGame ==
    /\ NotStarted
    /\ NoBeatmap
    /\ current_difficulty = "MEDIUM"
    /\ objects = << >>
    /\ removed = {}
    /\ game_time = 0
    /\ state = "MENU"
    /\ NoTracking

InitScore ==
    /\ score_manager = ScoreManagerInit
    /\ last_op = [op |-> "init"]
    /\ stats = NoStats
    /\ NoGame

\* the judgments of a game that are not PERFECT
Others(sm) == sm.good_count + sm.ok_count + sm.miss_count

AddHit ==
    \E hit_result \in HitResults :
        /\ score_manager.total_hits < MaxHits
        /\ hit_result.rating \in {"GOOD", "OK"} => Others(score_manager) < MaxOther
        /\ score_manager' = add_hit(score_manager, hit_result)
        /\ last_op' = [op |-> "add_hit", hit_result |-> hit_result]
        /\ UNCHANGED <<sessionVars, genVars, stats, noteVars, game_time, state, trackVars>>

AddMiss ==
    /\ Others(score_manager) < MaxOther
    /\ score_manager' = add_miss(score_manager)
    /\ last_op' = [op |-> "add_miss"]
    /\ UNCHANGED <<sessionVars, genVars, stats, noteVars, game_time, state, trackVars>>

Reset ==
    /\ score_manager' = reset(score_manager)
    /\ last_op' = [op |-> "reset"]
    /\ UNCHANGED <<sessionVars, genVars, stats, noteVars, game_time, state, trackVars>>

NextScore == AddHit \/ AddMiss \/ Reset

SpecScore == InitScore /\ [][NextScore]_vars

(***************************************************************************)
(* SpecNotes: a FallingObjectManager and a CollisionDetector driven by any *)
(* sequence of manager updates (one per frame, game time advancing by the  *)
(* frame time) and of check_hit calls on any object with the lane active   *)
(* or not.                                                                 *)
(***************************************************************************)
Dts == {FrameMs}

\* start_game : the warmup objects (kick, hihat, snare), spawn_time + 3.0
WarmupObjects(falling_speed) ==
    << FallingObject(1, "kick", 3500, falling_speed),
       FallingObject(2, "hihat", 4500, falling_speed),
       FallingObject(3, "snare", 5500, falling_speed) >>

\* a warmup object after the warmup: missed and dead at the first y beyond
\* OBJECT_TARGET_Y + 100
PassedObject(obj) ==
    [obj EXCEPT !.is_spawned = TRUE, !.is_missed = TRUE, !.is_dead = TRUE,
                !.y = OBJECT_SPAWN_Y + obj.falling_speed
                        * (((OBJECT_TARGET_Y + MissDistance - OBJECT_SPAWN_Y)
                             \div obj.falling_speed) + 1)]

\* the main loop during play: camera open, warmup and countdown (of frames
\* on time) over
InPlay(falling_speed) ==
    /\ running = TRUE
    /\ music_playing = TRUE
    /\ menu_screen = MenuScreenInit
    /\ result_screen = ResultScreenInit
    /\ camera = [opened |-> TRUE]
    /\ pc = "update"
    /\ countdown_time =
          COUNTDOWN_TIME
            - ((COUNTDOWN_TIME + FrameMs - 1) \div FrameMs) * FrameMs
    /\ warmup_objects =
          [i \in 1..3 |-> PassedObject(WarmupObjects(falling_speed)[i])]
    /\ warmup_completed = TRUE

\* beatmaps of two notes a beat interval (0.5 s at 120 bpm) apart
Beatmaps ==
    { << <<0, "kick">>, <<500, "kick">> >>,
      << <<0, "hihat">>, <<500, "snare">> >> }

InitNotes ==
    /\ score_manager = ScoreManagerInit
    /\ stats = NoStats
    /\ current_difficulty \in DifficultyNames
    /\ \E beatmap \in Beatmaps :
          objects = FallingObjectManager(beatmap,
                        get_difficulty(current_difficulty).falling_speed)
    /\ removed = {}
    /\ game_time = 0
    /\ state = "PLAYING"
    /\ InPlay(get_difficulty(current_difficulty).falling_speed)
    /\ NoTracking
    /\ NoBeatmap
    /\ last_op = [op |-> "init"]

\* the caller's frame: advance the time, FallingObjectManager.update
ManagerUpdate ==
    \E dt \in Dts :
        /\ game_time < MaxGameTime
        /\ game_time' = game_time + dt
        /\ objects' = FallingObjectManager_update(objects, dt, game_time')
        /\ removed' = removed \cup Purged(objects, dt, game_time')
        /\ last_op' = [op |-> "update"]
        /\ UNCHANGED <<sessionVars, genVars, scoreVars, current_difficulty, state, trackVars>>

\* CollisionDetector.check_hit on any object of the manager
CheckHit ==
    \E i \in 1..Len(objects) : \E hand_in_lane \in BOOLEAN :
        LET r == check_hit(DetectorOf(current_difficulty), objects[i],
                           hand_in_lane)
        IN /\ objects' = [objects EXCEPT ![i] = r.object]
           /\ last_op' = [op |-> "check_hit", id |-> objects[i].id,
                          hand_in_lane |-> hand_in_lane, result |-> r.result]
           /\ UNCHANGED <<sessionVars, genVars, scoreVars, current_difficulty, removed, game_time, state,
                        trackVars>>

NextNotes == ManagerUpdate \/ CheckHit

SpecNotes == InitNotes /\ [][NextNotes]_vars

\* SpecNotesLive: the same on a beatmap of one note that spawns after the
\* start; the main loop calls update_gameplay in every iteration while
\* PLAYING, so the frames go on
LiveBeatmaps == { << <<500, "kick">> >> }

InitNotesLive ==
    /\ score_manager = ScoreManagerInit
    /\ stats = NoStats
    /\ current_difficulty \in DifficultyNames
    /\ \E beatmap \in LiveBeatmaps :
          objects = FallingObjectManager(beatmap,
                        get_difficulty(current_difficulty).falling_speed)
    /\ removed = {}
    /\ game_time = 0
    /\ state = "PLAYING"
    /\ InPlay(get_difficulty(current_difficulty).falling_speed)
    /\ NoTracking
    /\ NoBeatmap
    /\ last_op = [op |-> "init"]

SpecNotesLive ==
    InitNotesLive /\ [][NextNotes]_vars /\ WF_vars(ManagerUpdate)

(***************************************************************************)
(* SpecLane: the tracking part of a frame (update_gameplay from the        *)
(* projections to check_collisions_with_velocity) on any sequence of       *)
(* detections.                                                             *)
(***************************************************************************)
\* index-fingertip landmarks: K1, K2, K3 inside the kick lane (collision
\* centres (1090,455), (1105,455), (1095,455): 15, 5 and 10 px apart), S1
\* inside the snare lane (130,455), H1 inside the hi-hat lane (610,335)
K1 == Landmark(304, 1200)
K2 == Landmark(280, 1200)
K3 == Landmark(296, 1200)
S1 == Landmark(1840, 1200)
H1 == Landmark(1072, 816)
HandLandmarks == {K1, K2, K3, S1, H1}

\* chin landmarks: H1 and H2 inside the hi-hat lane ((610,335), (610,350):
\* 15 px apart), K1 inside the kick lane
H2 == Landmark(1072, 864)
ChinLandmarks == {H1, H2, K1}

Detection(label, index_tip) == [label |-> label, index_tip |-> index_tip]

\* multi_hand_landmarks with multi_handedness: no hand, one hand, or both
\* hands in either order of detection (both hands at the landmarks of the
\* kick and snare lanes that are a fast move apart)
HandResults(landmarks) ==
    {<< >>}
    \cup {<<Detection(l, p)>> : l \in {"Left", "Right"}, p \in landmarks}
    \cup {<<Detection(l, p), Detection(IF l = "Left" THEN "Right" ELSE "Left", q)>> :
            l \in {"Left", "Right"}, p \in landmarks \cap {K1, K2, S1},
            q \in landmarks \cap {K1, K2, S1}}

\* multi_face_landmarks: no face, or the chin landmark of the first face
FaceResults(landmarks) == {None} \cup landmarks

InitLane ==
    /\ score_manager = ScoreManagerInit
    /\ stats = NoStats
    /\ current_difficulty = "MEDIUM"
    /\ objects = << >>
    /\ removed = {}
    /\ game_time = 0
    /\ state = "PLAYING"
    /\ InPlay(get_difficulty(current_difficulty).falling_speed)
    /\ NoTracking
    /\ NoBeatmap
    /\ last_op = [op |-> "init"]

\* the controls a frame detected: the labels of its hands, "Chin" for a chin
Controls(fingertip_positions, chin_position) ==
    {fingertip_positions[k][1] : k \in 1..Len(fingertip_positions)}
    \cup (IF chin_position # None THEN {"Chin"} ELSE {})

\* the controls detected in the frame an entry of the log stands for
DetectedIn(op) ==
    IF op.op = "frame" THEN Controls(op.fingertip_positions, op.chin_position)
    ELSE {}

\* a tracking that holds the last positions over a frame that detects
\* nothing, and takes a held position for a moving one
Tracking_held(hand_results, face_results, lanes_, prev_fingertips, prev_chin) ==
    LET fingertip_positions ==
            IF hand_results = << >> THEN prev_fingertips
            ELSE get_fingertip_positions(hand_results, SCREEN_WIDTH,
                                         SCREEN_HEIGHT)
        chin_position ==
            get_chin_position(face_results, SCREEN_WIDTH, SCREEN_HEIGHT)
        fingertip_velocities ==
            [i \in 1..Len(fingertip_positions) |->
                <<fingertip_positions[i][1],
                  velocity_threshold * velocity_threshold>>]
        r == check_collisions_with_velocity(lanes_, fingertip_positions,
                 chin_position, fingertip_velocities, 0, velocity_threshold)
    IN [fingertip_positions |-> fingertip_positions,
        chin_position |-> chin_position,
        fingertip_velocities |-> fingertip_velocities,
        chin_velocity |-> 0,
        active_lanes |-> r.active_lanes,
        lanes |-> r.lanes]

\* update_gameplay, lines 205-260, on one frame's detections: what the
\* frame computes
Tracking(hand_results, face_results, lanes_, prev_fingertips, prev_chin) ==
    LET fingertip_positions ==
            get_fingertip_positions(hand_results, SCREEN_WIDTH, SCREEN_HEIGHT)
        chin_position ==
            get_chin_position(face_results, SCREEN_WIDTH, SCREEN_HEIGHT)
        fingertip_velocities ==
            calculate_velocity(fingertip_positions, prev_fingertips)
        chin_velocity ==
            IF chin_position # None
            THEN calculate_chin_velocity(chin_position, prev_chin)
            ELSE 0
        r == check_collisions_with_velocity(lanes_, fingertip_positions,
                 chin_position, fingertip_velocities, chin_velocity,
                 velocity_threshold)
    IN [fingertip_positions |-> fingertip_positions,
        chin_position |-> chin_position,
        fingertip_velocities |-> fingertip_velocities,
        chin_velocity |-> chin_velocity,
        active_lanes |-> r.active_lanes,
        lanes |-> r.lanes]

TrackFrame ==
    \E hand_results \in HandResults(HandLandmarks) :
    \E face_results \in FaceResults(ChinLandmarks) :
    \E t \in {Tracking(hand_results, face_results, lanes,
                       prev_fingertip_positions, prev_chin_position)} :
    \E h \in {update_velocity_tracking(t.fingertip_positions,
                                        t.chin_position)} :
        /\ lanes' = t.lanes
        /\ prev_fingertip_positions' = h.prev_fingertip_positions
        /\ prev_chin_position' = h.prev_chin_position
        /\ last_op' = [op |-> "frame", active_lanes |-> t.active_lanes,
                       fingertip_positions |-> t.fingertip_positions,
                       chin_position |-> t.chin_position,
                       first_seen |-> Controls(t.fingertip_positions,
                                               t.chin_position)
                                      \ DetectedIn(last_op),
                       released |-> {lanes[i].instrument :
                                        i \in {j \in 1..Len(lanes) :
                                                   /\ lanes[j].is_active
                                                   /\ ~t.lanes[j].is_active}}]
        /\ UNCHANGED <<sessionVars, genVars, scoreVars, noteVars, game_time, state>>

NextLane == TrackFrame

SpecLane == InitLane /\ [][NextLane]_vars

(***************************************************************************)
(* SpecProject: the two projections of one detected landmark, a fingertip  *)
(* or the chin, on a screen of given dimensions.                           *)
(***************************************************************************)
\* landmark coordinates inside the frame, in 1/LandmarkDen: the borders,
\* products x * screen_width that are whole pixels and that are not
ProjectionLandmarks ==
    {Landmark(x, y) : x \in {0, 1, 8, 304, 305, 1000, 1024, 2047, 2048},
                      y \in {0, 1, 816, 1200, 2047, 2048}}
\* the game's screen, and a smaller one
ScreenSizes == {<<SCREEN_WIDTH, SCREEN_HEIGHT>>, <<800, 600>>}

ProjectFingertip ==
    \E lm \in ProjectionLandmarks : \E size \in ScreenSizes :
    \E label \in {"Left", "Right"} :
        /\ last_op' =
              [op |-> "project", landmark |-> lm, screen_width |-> size[1],
               screen_height |-> size[2],
               collision |-> DictGet(get_fingertip_positions(
                                 <<Detection(label, lm)>>, size[1], size[2]),
                                 label),
               visual |-> DictGet(get_fingertip_visuals(
                              <<Detection(label, lm)>>, size[1], size[2]),
                              label)]
        /\ UNCHANGED <<sessionVars, genVars, scoreVars, noteVars, trackVars,
                       game_time, state>>

ProjectChin ==
    \E lm \in ProjectionLandmarks : \E size \in ScreenSizes :
        /\ last_op' =
              [op |-> "project_chin", landmark |-> lm,
               screen_width |-> size[1], screen_height |-> size[2],
               collision |-> get_chin_position(lm, size[1], size[2]),
               visual |-> get_chin_visual(lm, size[1], size[2])]
        /\ UNCHANGED <<sessionVars, genVars, scoreVars, noteVars, trackVars,
                       game_time, state>>

InitProject ==
    /\ score_manager = ScoreManagerInit
    /\ stats = NoStats
    /\ last_op = [op |-> "init"]
    /\ NoGame

NextProject == ProjectFingertip \/ ProjectChin

SpecProject == InitProject /\ [][NextProject]_vars

(***************************************************************************)
(* SpecFlash: trigger_hit, activate and LaneManager.update on the lanes,   *)
(* with frames on time (17 ms) and late frames (50 ms, 100 ms); last_op    *)
(* keeps, per lane, the dt accumulated since its last trigger_hit.         *)
(***************************************************************************)
FlashDts == {FrameMs, LateMs, SlowMs}
\* the lane the hits are triggered on: kick
FlashLanes == {1}
NotTriggered == -1

FlashTrigger ==
    \E i \in FlashLanes :
        /\ lanes' = [lanes EXCEPT ![i] = trigger_hit(lanes[i])]
        /\ last_op' = [op |-> "trigger_hit", lane |-> i,
                       since |-> [last_op.since EXCEPT ![i] = 0]]
        /\ UNCHANGED <<sessionVars, genVars, scoreVars, noteVars, game_time,
                       state, prev_fingertip_positions, prev_chin_position>>

FlashActivate ==
    \E i \in FlashLanes : \E active \in BOOLEAN :
        /\ lanes' = [lanes EXCEPT ![i] = activate(lanes[i], active)]
        /\ last_op' = [op |-> "activate", lane |-> i,
                       since |-> last_op.since]
        /\ UNCHANGED <<sessionVars, genVars, scoreVars, noteVars, game_time,
                       state, prev_fingertip_positions, prev_chin_position>>

FlashUpdate ==
    \E dt \in FlashDts :
        /\ game_time < MaxFlashTime
        /\ game_time' = game_time + dt
        /\ lanes' = LaneManager_update(lanes, dt)
        /\ last_op' = [op |-> "update", lane |-> 0,
                       since |-> [i \in 1..Len(lanes) |->
                                    IF last_op.since[i] = NotTriggered
                                    THEN NotTriggered
                                    ELSE last_op.since[i] + dt]]
        /\ UNCHANGED <<sessionVars, genVars, scoreVars, noteVars, state,
                       prev_fingertip_positions, prev_chin_position>>

InitFlash ==
    /\ score_manager = ScoreManagerInit
    /\ stats = NoStats
    /\ current_difficulty = "MEDIUM"
    /\ objects = << >>
    /\ removed = {}
    /\ game_time = 0
    /\ state = "MENU"
    /\ NotStarted
    /\ NoTracking
    /\ NoBeatmap
    /\ last_op = [op |-> "init", lane |-> 0,
                  since |-> [i \in 1..Len(LaneManager) |-> NotTriggered]]

NextFlash == FlashTrigger \/ FlashActivate \/ FlashUpdate

SpecFlash == InitFlash /\ [][NextFlash]_vars

(***************************************************************************)
(* Spec: the PLAYING state of the GameManager, one update_gameplay per     *)
(* tick, from the start of play to the result screen.                      *)
(***************************************************************************)
\* GameSettings.GAME_DURATION, seconds
GAME_DURATION == 60
total_game_duration == GAME_DURATION * 1000

GameDts == {FrameMs, StallMs}

\* the detections of a game: no hand, or the left index fingertip at K1 or
\* K2; no face
GameHandResults == {<< >>, <<Detection("Left", K1)>>, <<Detection("Left", K2)>>}
GameFaceResults == {None}

GameBeatmaps ==
    { << <<0, "kick">>, <<500, "kick">> >> }

\* start_game and the end of the countdown: the state play starts from
Init ==
    /\ score_manager = ScoreManagerInit
    /\ stats = NoStats
    /\ current_difficulty \in DifficultyNames
    /\ \E beatmap \in GameBeatmaps :
          objects = FallingObjectManager(beatmap,
                        get_difficulty(current_difficulty).falling_speed)
    /\ removed = {}
    /\ game_time = 0
    /\ state = "PLAYING"
    /\ InPlay(get_difficulty(current_difficulty).falling_speed)
    /\ NoTracking
    /\ NoBeatmap
    /\ last_op = [op |-> "init"]

\* the loop "Process hit results" on the score manager
RECURSIVE AddHits(_, _, _)
AddHits(sm, hit_results, i) ==
    IF i > Len(hit_results) THEN sm
    ELSE AddHits(add_hit(sm, hit_results[i]), hit_results, i + 1)

\* the loop "Process hit results" on the lanes: trigger_hit of the lane of
\* every hit result
TriggerHits(lanes_, hit_results) ==
    [i \in 1..Len(lanes_) |->
        IF \E k \in 1..Len(hit_results) :
              hit_results[k].instrument = lanes_[i].instrument
        THEN trigger_hit(lanes_[i]) ELSE lanes_[i]]

IsMissedAlive(obj) == obj.is_missed /\ ~obj.is_dead

\* the loop "Check for missed objects": one add_miss for every active object
\* that is missed and not dead
MissedObjects(objs) == SelectSeq(get_active_objects(objs), IsMissedAlive)

\* a tick without a camera frame that clears the lanes, as a frame without
\* detections does
no_frame_return_cleared ==
    /\ last_op' = [op |-> "no_frame"]
    /\ lanes' = [i \in 1..Len(lanes) |-> [lanes[i] EXCEPT !.is_active = FALSE]]
    /\ UNCHANGED <<loopVars, uiVars, camera, genVars, scoreVars, noteVars,
                   prev_fingertip_positions, prev_chin_position, state>>

\* update_gameplay: "if not ret: return"
no_frame_return ==
    /\ last_op' = [op |-> "no_frame"]
    /\ UNCHANGED <<loopVars, uiVars, camera, genVars, scoreVars, noteVars,
                   trackVars, state>>

\* GameManager.update_gameplay; camera.read() may fail while the game time
\* is at most NoFrameTime
update_gameplay(HandInputs, NoFrameTime) ==
    /\ state = "PLAYING"
    /\ \E dt \in GameDts :
        /\ dt = FrameMs => game_time < MaxGameTime
        /\ game_time' = game_time + dt
        /\ IF game_time' >= total_game_duration
           THEN \* end_game
                /\ camera' = Released
                /\ music_playing' = FALSE
                /\ state' = "RESULT"
                /\ last_op' = [op |-> "end_game"]
                /\ UNCHANGED <<loopVars, menu_screen, result_screen, genVars,
                               scoreVars, noteVars, trackVars>>
           ELSE \E ret \in (IF game_time' <= NoFrameTime
                             THEN BOOLEAN ELSE {TRUE}) :
                IF ~ret
                THEN no_frame_return
                ELSE
                \E hand_results \in HandInputs :
                \E face_results \in GameFaceResults :
                \E t \in {Tracking(hand_results, face_results, lanes,
                                   prev_fingertip_positions,
                                   prev_chin_position)} :
                \E updated \in {FallingObjectManager_update(objects, dt,
                                                            game_time')} :
                \E r \in {check_multiple_objects(
                              DetectorOf(current_difficulty), updated,
                              Ids(get_objects_in_hit_zone(updated)),
                              t.active_lanes)} :
                \E h \in {update_velocity_tracking(t.fingertip_positions,
                                                    t.chin_position)} :
                    /\ prev_fingertip_positions' = h.prev_fingertip_positions
                    /\ prev_chin_position' = h.prev_chin_position
                    /\ lanes' = TriggerHits(LaneManager_update(t.lanes, dt),
                                            r.hit_results)
                    /\ objects' = r.objects
                    /\ removed' = removed \cup Purged(objects, dt, game_time')
                    /\ score_manager' =
                          Misses(AddHits(score_manager, r.hit_results, 1),
                                 Len(MissedObjects(r.objects)))
                    /\ last_op' = [op |-> "frame",
                                   hands |-> Len(hand_results),
                                   face |-> face_results # None,
                                   active_lanes |-> t.active_lanes,
                                   hit_results |-> r.hit_results,
                                   feedbacks |-> ShowFeedbacks(
                                       DetectorOf(current_difficulty),
                                       r.hit_results, 1),
                                   purged |-> Purged(objects, dt, game_time')]
                    /\ UNCHANGED <<loopVars, uiVars, camera, genVars, stats,
                                   current_difficulty, state>>

\* the update of one iteration of the main loop while PLAYING
UpdateGameplay ==
    update_gameplay(GameHandResults, MaxNoFrameTime) /\ UNCHANGED pc

Next == UpdateGameplay

Spec == Init /\ [][Next]_vars

(***************************************************************************)
(* SpecDrops: the first ticks of a game in which camera.read() may fail in *)
(* any tick.                                                               *)
(***************************************************************************)
DropsUpdate ==
    /\ game_time < MaxDropTime
    /\ update_gameplay(GameHandResults, total_game_duration)
    /\ UNCHANGED pc

NextDrops == DropsUpdate

SpecDrops == Init /\ [][NextDrops]_vars

(***************************************************************************)
(* SpecAccuracy: get_stats_dict (get_accuracy, get_rank) applied to the    *)
(* ScoreManager left by m misses followed by p PERFECT, g GOOD and o OK    *)
(* hits, for bounded p, g, o, m.                                           *)
(***************************************************************************)
ScoreAfter(p, g, o, m) ==
    Hits(Hits(Hits(Misses(ScoreManagerInit, m), "PERFECT", p), "GOOD", g), "OK", o)

InitAccuracy ==
    /\ \E p \in 0..MaxPerfectIn : \E g \in 0..MaxOtherIn :
       \E o \in 0..MaxOtherIn : \E m \in 0..MaxOtherIn :
           score_manager = ScoreAfter(p, g, o, m)
    /\ last_op = [op |-> "init"]
    /\ stats = NoStats
    /\ NoGame

GetStatsDict ==
    /\ stats' = get_stats_dict(score_manager)
    /\ last_op' = [op |-> "get_stats_dict"]
    /\ UNCHANGED <<sessionVars, genVars, score_manager, noteVars, game_time, state, trackVars>>

NextAccuracy == GetStatsDict

SpecAccuracy == InitAccuracy /\ [][NextAccuracy]_vars

(***************************************************************************)
(* SpecTally: a ScoreManager that receives the results of the judge (and   *)
(* an unsuccessful one) and misses in any order, and whose statistics are  *)
(* read at any time.                                                       *)
(***************************************************************************)
TallyHit ==
    \E hit_result \in HitResults :
        /\ score_manager.total_hits + score_manager.miss_count < MaxTally
        /\ score_manager' = add_hit(score_manager, hit_result)
        /\ last_op' = [op |-> "add_hit", hit_result |-> hit_result]
        /\ UNCHANGED <<sessionVars, genVars, stats, noteVars, game_time, state, trackVars>>

TallyMiss ==
    /\ score_manager.total_hits + score_manager.miss_count < MaxTally
    /\ score_manager' = add_miss(score_manager)
    /\ last_op' = [op |-> "add_miss"]
    /\ UNCHANGED <<sessionVars, genVars, stats, noteVars, game_time, state, trackVars>>

NextTally == TallyHit \/ TallyMiss \/ GetStatsDict

SpecTally == InitScore /\ [][NextTally]_vars

(***************************************************************************)
(* BeatmapGenerator and loop_beatmap.  Timestamps are in milliseconds; a   *)
(* variation and a random draw are in hundredths (30 stands for 0.3).      *)
(***************************************************************************)
\* GameSettings.BEAT_DURATION (milliseconds) and BEAT_BPM
BEAT_DURATION == 9000
BEAT_BPM == 120

\* BeatmapGenerator.__init__
BeatmapGenerator(duration, bpm, pattern_type, variation) ==
    [duration |-> duration, bpm |-> bpm, pattern_type |-> pattern_type,
     variation |-> variation,
     beat_interval |-> 60000 \div bpm,
     total_beats |-> duration \div (60000 \div bpm)]

\* values of random.random(), hundredths: 0.0, 0.4 and 0.99
RandomValues == {0, 40, 99}

\* the draw under which no substitution and no double note happens
Dull == 99

\* the probability of an extra fast-succession note, hundredths
DoubleChance == 15

\* random.choice(seq) under the draw d
choice(seq, d) == seq[(d * Len(seq)) \div 100 + 1]

AnyInstrument == <<"kick", "snare", "hihat">>

\* a generate() whose beat counter is kept by the generator between calls
RunStart_stale ==
    [pc |-> "loop", beat_count |-> Len(returned), timestamp |-> 0,
     beatmap |-> << >>]

\* the locals of generate() at its call
RunStart == [pc |-> "loop", beat_count |-> 0, timestamp |-> 0, beatmap |-> << >>]

\* a simple pattern whose variation test admits a draw equal to the variation
SimpleIteration_inclusive(self, locals, d) ==
    IF locals.beat_count >= self.total_beats
    THEN [run |-> [locals EXCEPT !.pc = "return"], used |-> 0]
    ELSE LET pattern == <<"kick", "snare", "hihat", "snare">>
             timestamp == locals.beat_count * self.beat_interval
             varied == d[1] <= self.variation
             instrument == IF varied THEN choice(AnyInstrument, d[2])
                           ELSE pattern[(locals.beat_count % Len(pattern)) + 1]
         IN [run |-> [locals EXCEPT
                         !.beatmap = Append(@, <<timestamp, instrument>>),
                         !.beat_count = @ + 1],
             used |-> IF varied THEN 2 ELSE 1]

\* BeatmapGenerator._generate_simple_pattern : one pass of the for loop (i
\* is kept in beat_count), or the return when the range is exhausted; d are
\* the next draws of the random stream, used counts those consumed
SimpleIteration(self, locals, d) ==
    IF locals.beat_count >= self.total_beats
    THEN [run |-> [locals EXCEPT !.pc = "return"], used |-> 0]
    ELSE LET pattern == <<"kick", "snare", "hihat", "snare">>
             timestamp == locals.beat_count * self.beat_interval
             varied == d[1] < self.variation
             instrument == IF varied THEN choice(AnyInstrument, d[2])
                           ELSE pattern[(locals.beat_count % Len(pattern)) + 1]
         IN [run |-> [locals EXCEPT
                         !.beatmap = Append(@, <<timestamp, instrument>>),
                         !.beat_count = @ + 1],
             used |-> IF varied THEN 2 ELSE 1]

\* BeatmapGenerator._generate_smart_pattern : one pass of the while loop
SmartIteration(self, locals, d) ==
    IF ~(locals.timestamp < self.duration)
    THEN [run |-> [locals EXCEPT !.pc = "return"], used |-> 0]
    ELSE LET base_pattern == <<"kick", "hihat", "snare", "hihat",
                               "kick", "hihat", "snare", "hihat">>
             half_beat == self.beat_interval \div 2
             base == base_pattern[(locals.beat_count % Len(base_pattern)) + 1]
             varied == d[1] < self.variation
             instrument ==
                 IF ~varied THEN base
                 ELSE IF base = "kick" THEN choice(<<"kick", "hihat">>, d[2])
                 ELSE IF base = "snare" THEN choice(<<"snare", "kick">>, d[2])
                 ELSE choice(<<"hihat", "kick", "snare">>, d[2])
         IN [run |-> [locals EXCEPT
                         !.beatmap = Append(@, <<locals.timestamp, instrument>>),
                         !.timestamp = @ + half_beat,
                         !.beat_count = @ + 1],
             used |-> IF varied THEN 2 ELSE 1]

\* a complex pattern that stamps the note after a fast-succession note with
\* the time of the step instead of the advanced time
ComplexIteration_unsorted(self, locals, d) ==
    IF ~(locals.timestamp < self.duration)
    THEN [run |-> [locals EXCEPT !.pc = "return"], used |-> 0]
    ELSE LET half_beat == self.beat_interval \div 2
             varied == d[1] < self.variation
             k == IF varied THEN 2 ELSE 1
             doubled == d[k + 1] < DoubleChance
         IN IF doubled
            THEN [run |-> [locals EXCEPT
                     !.beatmap = @ \o <<<<locals.timestamp + half_beat \div 2,
                                          "kick">>,
                                        <<locals.timestamp, "kick">>>>,
                     !.timestamp = @ + half_beat \div 2 + half_beat,
                     !.beat_count = @ + 1],
                  used |-> k + 2]
            ELSE [run |-> [locals EXCEPT
                     !.beatmap = Append(@, <<locals.timestamp, "kick">>),
                     !.timestamp = @ + half_beat,
                     !.beat_count = @ + 1],
                  used |-> k + 1]

\* BeatmapGenerator._generate_complex_pattern : one pass of the while loop
ComplexIteration(self, locals, d) ==
    IF ~(locals.timestamp < self.duration)
    THEN [run |-> [locals EXCEPT !.pc = "return"], used |-> 0]
    ELSE LET base_pattern == <<"kick", "hihat", "snare", "hihat",
                               "kick", "kick", "snare", "hihat",
                               "kick", "hihat", "snare", "hihat",
                               "kick", "snare", "snare", "hihat">>
             half_beat == self.beat_interval \div 2
             base == base_pattern[(locals.beat_count % Len(base_pattern)) + 1]
             varied == d[1] < self.variation
             k == IF varied THEN 2 ELSE 1
             instrument == IF varied THEN choice(AnyInstrument, d[2]) ELSE base
             doubled == d[k + 1] < DoubleChance
             fast == locals.timestamp + half_beat \div 2
         IN IF doubled
            THEN [run |-> [locals EXCEPT
                     !.beatmap = @ \o <<<<locals.timestamp, instrument>>,
                                        <<fast, choice(AnyInstrument, d[k + 2])>>>>,
                     !.timestamp = fast + half_beat,
                     !.beat_count = @ + 1],
                  used |-> k + 2]
            ELSE [run |-> [locals EXCEPT
                     !.beatmap = Append(@, <<locals.timestamp, instrument>>),
                     !.timestamp = @ + half_beat,
                     !.beat_count = @ + 1],
                  used |-> k + 1]

\* BeatmapGenerator.generate : the pattern family's loop
GenerateIteration(self, locals, d) ==
    IF self.pattern_type = "simple" THEN SimpleIteration(self, locals, d)
    ELSE IF self.pattern_type = "smart" THEN SmartIteration(self, locals, d)
    ELSE IF self.pattern_type = "complex" THEN ComplexIteration(self, locals, d)
    ELSE SmartIteration(self, locals, d)

\* the entries loop_beatmap appends for one loop_index
LoopEntries(one_loop, offset) ==
    [j \in 1..Len(one_loop) |-> <<one_loop[j][1] + offset, one_loop[j][2]>>]

RECURSIVE LoopFrom(_, _, _, _, _)
LoopFrom(one_loop, num_loops, loop_duration, loop_index, extended) ==
    IF loop_index >= num_loops THEN extended
    ELSE LoopFrom(one_loop, num_loops, loop_duration, loop_index + 1,
                  extended \o LoopEntries(one_loop, loop_index * loop_duration))

\* a loop_beatmap that gives every loop the offset of the first one
loop_beatmap_flat(one_loop, num_loops, loop_duration) ==
    LoopFrom(one_loop, num_loops, 0, 0, << >>)

\* loop_beatmap
loop_beatmap(one_loop, num_loops, loop_duration) ==
    LoopFrom(one_loop, num_loops, loop_duration, 0, << >>)

(***************************************************************************)
(* SpecBeatmap: the beatmap of start_game.  A BeatmapGenerator is built    *)
(* for a selected level; generate() runs pass by pass on the draws of a    *)
(* random stream, is run again on the same generator after reseeding, and  *)
(* the returned loop is tiled by loop_beatmap.                             *)
(***************************************************************************)
\* the level names given to get_difficulty: the three of the menu and one
\* that is none of them
Levels == {"EASY", "MEDIUM", "HARD", "EXPERT"}


\* the arguments the generator of a difficulty is built with: the duration
\* of the game's loop or none, the tempo of the game or a slow one with few
\* passes of the loops, the family and the variation of the difficulty, or
\* no variation, or a family generate() does not know
GeneratorArgs(difficulty) ==
    {a \in [duration : {0, BEAT_DURATION}, bpm : {15, BEAT_BPM},
            pattern_type : {difficulty.pattern_type, "freestyle"},
            variation : {0, difficulty.pattern_variation}] :
        a.bpm = BEAT_BPM => (a.pattern_type = "simple" /\ a.variation = 0)}

\* num_loops of start_game
num_loops_of_game == total_game_duration \div BEAT_DURATION + 1

LoopArgs ==
    {[num_loops |-> n, loop_duration |-> BEAT_DURATION] :
        n \in 0..MaxLoops \cup {num_loops_of_game}}
    \cup {[num_loops |-> MaxLoops, loop_duration |-> BEAT_DURATION \div 2]}

InitBeatmap ==
    /\ selected_difficulty \in Levels
    /\ current_difficulty = get_difficulty(selected_difficulty).name
    /\ \E a \in GeneratorArgs(get_difficulty(selected_difficulty)) :
          generator = BeatmapGenerator(a.duration, a.bpm, a.pattern_type,
                                       a.variation)
    /\ run = NoRun
    /\ rng = [draws |-> << >>, pos |-> 1]
    /\ returned = << >>
    /\ game_beatmap = << >>
    /\ score_manager = ScoreManagerInit
    /\ stats = NoStats
    /\ objects = << >>
    /\ removed = {}
    /\ game_time = 0
    /\ state = "MENU"
    /\ NoTracking
    /\ NotStarted
    /\ last_op = [op |-> "init"]

gameVars == <<scoreVars, noteVars, trackVars, game_time, state>>

\* random.seed(seed) and the call of generator.generate()
Generate ==
    /\ run.pc = "idle"
    /\ Len(returned) < MaxRuns
    /\ last_op.op # "loop_beatmap"
    /\ rng' = [rng EXCEPT !.pos = 1]
    /\ run' = RunStart
    /\ last_op' = [op |-> "generate"]
    /\ UNCHANGED <<sessionVars, gameVars, selected_difficulty, generator, returned,
                   game_beatmap>>

\* the next draws of the stream: those of the seed where already drawn
DrawWindows(r) ==
    {d \in [1..4 -> RandomValues] :
        \A j \in 1..4 : r.pos + j - 1 <= Len(r.draws)
                            => d[j] = r.draws[r.pos + j - 1]}

\* the stream after the first used draws of the window d are consumed
Consume(r, d, used) ==
    [draws |-> r.draws \o [j \in 1..(r.pos + used - 1 - Len(r.draws)) |->
                              d[Len(r.draws) - r.pos + 1 + j]],
     pos |-> r.pos + used]

Eventful(draws) == Cardinality({j \in 1..Len(draws) : draws[j] # Dull})

\* one pass of the loop of generate(), or its return
GenerateStep ==
    /\ run.pc = "loop"
    /\ \E d \in DrawWindows(rng) :
       \E res \in {GenerateIteration(generator, run, d)} :
          /\ \A j \in (res.used + 1)..4 :
                rng.pos + j - 1 > Len(rng.draws) => d[j] = Dull
          /\ rng' = Consume(rng, d, res.used)
          /\ Eventful(rng'.draws) <= MaxEvents
          /\ IF res.run.pc = "return"
             THEN /\ returned' = Append(returned, res.run.beatmap)
                  /\ run' = NoRun
             ELSE /\ run' = res.run
                  /\ UNCHANGED returned
    /\ UNCHANGED <<sessionVars, gameVars, selected_difficulty, generator, game_beatmap,
                   last_op>>

\* loop_beatmap applied to the loop generate() returned
LoopBeatmap ==
    /\ run.pc = "idle"
    /\ Len(returned) >= 1
    /\ last_op.op # "loop_beatmap"
    /\ \E a \in LoopArgs :
          /\ game_beatmap' = loop_beatmap(returned[Len(returned)],
                                          a.num_loops, a.loop_duration)
          /\ last_op' = [op |-> "loop_beatmap",
                         one_loop |-> returned[Len(returned)],
                         num_loops |-> a.num_loops,
                         loop_duration |-> a.loop_duration]
    /\ UNCHANGED <<sessionVars, gameVars, selected_difficulty, generator, run, rng,
                   returned>>

NextBeatmap == Generate \/ GenerateStep \/ LoopBeatmap

SpecBeatmap == InitBeatmap /\ [][NextBeatmap]_vars

(***************************************************************************)
(* SpecPattern: generate(), then get_pattern_for_loop(loop_duration), then *)
(* generate() again on the same generator, each generate() after reseeding *)
(* with the same seed.                                                     *)
(***************************************************************************)
\* the loop durations handed to get_pattern_for_loop: the default (9 s) and
\* a third of it
LoopDurations == {BEAT_DURATION, BEAT_DURATION \div 3}

InitPattern ==
    /\ selected_difficulty \in DifficultyNames
    /\ current_difficulty = selected_difficulty
    /\ generator = BeatmapGenerator(BEAT_DURATION, BEAT_BPM,
                        get_difficulty(selected_difficulty).pattern_type,
                        get_difficulty(selected_difficulty).pattern_variation)
    /\ run = NoRun
    /\ rng = [draws |-> << >>, pos |-> 1]
    /\ returned = << >>
    /\ game_beatmap = << >>
    /\ score_manager = ScoreManagerInit
    /\ stats = NoStats
    /\ objects = << >>
    /\ removed = {}
    /\ game_time = 0
    /\ state = "MENU"
    /\ NoTracking
    /\ NotStarted
    /\ last_op = [op |-> "init"]

\* random.seed(seed) and generator.generate(), before get_pattern_for_loop
\* is called and after it has returned
PatternGenerate ==
    /\ run.pc = "idle"
    /\ last_op.op \in {"init", "pattern_returned"}
    /\ rng' = [rng EXCEPT !.pos = 1]
    /\ run' = RunStart
    /\ last_op' = [op |-> "generate", after_loop |-> last_op.op # "init"]
    /\ UNCHANGED <<sessionVars, gameVars, selected_difficulty, generator, returned,
                   game_beatmap>>

\* get_pattern_for_loop up to its call of generate()
GetPatternForLoop ==
    /\ run.pc = "idle"
    /\ last_op.op = "generate"
    /\ ~last_op.after_loop
    /\ \E loop_duration \in LoopDurations :
          /\ generator' = [generator EXCEPT
                              !.duration = loop_duration,
                              !.total_beats = loop_duration \div generator.beat_interval]
          /\ last_op' = [op |-> "get_pattern_for_loop",
                         original_duration |-> generator.duration,
                         original |-> generator,
                         loop_duration |-> loop_duration]
    /\ run' = RunStart
    /\ UNCHANGED <<sessionVars, gameVars, selected_difficulty, rng, returned,
                   game_beatmap>>

\* get_pattern_for_loop after generate() has returned: "Restore original
\* duration", return pattern
PatternReturn ==
    /\ run.pc = "idle"
    /\ last_op.op = "get_pattern_for_loop"
    /\ generator' = [generator EXCEPT !.duration = last_op.original_duration]
    /\ last_op' = [op |-> "pattern_returned", original |-> last_op.original,
                   loop_duration |-> last_op.loop_duration]
    /\ UNCHANGED <<sessionVars, gameVars, selected_difficulty, run, rng, returned,
                   game_beatmap>>

NextPattern == PatternGenerate \/ GenerateStep \/ GetPatternForLoop \/ PatternReturn

SpecPattern == InitPattern /\ [][NextPattern]_vars

(***************************************************************************)
(* SpecJudge: the notes part of a frame (update_gameplay from              *)
(* FallingObjectManager.update to check_multiple_objects).  A game is      *)
(* played without any lane active for any number of frames, then for a     *)
(* few frames with any set of active lanes.                                *)
(***************************************************************************)
\* the dicts check_collisions_with_velocity can return
ActiveLanes ==
    {[inst \in S |-> IF inst = "hihat" THEN "Chin" ELSE "Left"] :
        S \in SUBSET {"kick", "snare", "hihat"}}

InitJudge ==
    /\ score_manager = ScoreManagerInit
    /\ stats = NoStats
    /\ current_difficulty \in DifficultyNames
    /\ \E beatmap \in Beatmaps :
          objects = FallingObjectManager(beatmap,
                        get_difficulty(current_difficulty).falling_speed)
    /\ removed = {}
    /\ game_time = 0
    /\ state = "PLAYING"
    /\ InPlay(get_difficulty(current_difficulty).falling_speed)
    /\ NoTracking
    /\ NoBeatmap
    /\ last_op = [op |-> "init", ticks |-> 0]

\* update_gameplay, lines 265-270, with the dict active_lanes of the frame
Judging(active_lanes) ==
    \E updated \in {FallingObjectManager_update(objects, FrameMs,
                                                game_time + FrameMs)} :
    \E r \in {check_multiple_objects(DetectorOf(current_difficulty),
                  updated, Ids(get_objects_in_hit_zone(updated)),
                  active_lanes)} :
        /\ game_time' = game_time + FrameMs
        /\ objects' = r.objects
        /\ removed' = removed \cup Purged(objects, FrameMs, game_time')
        /\ last_op' = [op |-> "judge",
                       ticks |-> IF DOMAIN active_lanes = {} THEN last_op.ticks
                                 ELSE last_op.ticks + 1,
                       active_lanes |-> active_lanes,
                       objects_in_zone |-> get_objects_in_hit_zone(updated),
                       hit_results |-> r.hit_results]
        /\ UNCHANGED <<sessionVars, genVars, scoreVars, current_difficulty, state,
                       trackVars>>

\* a frame before the first activation: no lane is active
UnattendedFrame ==
    /\ game_time < MaxGameTime
    /\ last_op.ticks = 0
    /\ \E active_lanes \in {a \in ActiveLanes : DOMAIN a = {}} :
          Judging(active_lanes)

\* a frame with some lanes active
JudgeFrame ==
    /\ last_op.ticks < MaxJudgeTicks
    /\ \E active_lanes \in {a \in ActiveLanes : DOMAIN a # {}} :
          Judging(active_lanes)

NextJudge == UnattendedFrame \/ JudgeFrame

SpecJudge == InitJudge /\ [][NextJudge]_vars

(***************************************************************************)
(* SpecSession: the main loop of GameManager.run from the menu to the exit *)
(* of the process: handle_events and update of every iteration, start_game *)
(* with a camera that opens or not, warmup, countdown, a play in which no  *)
(* hand is shown, the result screen, and cleanup. The menu and result      *)
(* screens are inputs: the level selected, the choice made.                *)
(***************************************************************************)
\* the events of one iteration (pygame.event.get()): window close and key
\* presses, in the order they are delivered
Keys == {"QUIT", "K_UP", "K_DOWN", "K_RETURN", "K_SPACE", "K_ESCAPE", "K_r",
         "K_m"}

EventLists ==
    {<< >>} \cup {<<k>> : k \in Keys}
    \cup {<<"K_RETURN", "K_DOWN">>, <<"K_DOWN", "K_SPACE">>, <<"K_r", "K_m">>}

Pressed(events, key) == \E i \in 1..Len(events) : events[i] = key

\* a K_DOWN that moves the highlight without a limit
SelectionDown_unclamped(current_selection) == current_selection + 1

\* MenuScreen.handle_events : K_UP, K_DOWN
SelectionUp(current_selection) == Max(0, current_selection - 1)
SelectionDown(current_selection) ==
    Min(Len(difficulties) - 1, current_selection + 1)

\* MenuScreen.handle_events, from event i on: the screen and its
\* selected_difficulty after the events
RECURSIVE MenuScreen_handle_events(_, _, _, _)
MenuScreen_handle_events(menu, selected, events, i) ==
    IF i > Len(events) THEN [menu |-> menu, selected_difficulty |-> selected]
    ELSE IF events[i] = "K_UP"
    THEN MenuScreen_handle_events(
             [menu EXCEPT !.current_selection = SelectionUp(@)],
             selected, events, i + 1)
    ELSE IF events[i] = "K_DOWN"
    THEN MenuScreen_handle_events(
             [menu EXCEPT !.current_selection = SelectionDown(@)],
             selected, events, i + 1)
    ELSE IF events[i] \in {"K_RETURN", "K_SPACE"}
    THEN MenuScreen_handle_events(
             [menu EXCEPT !.should_start = TRUE],
             difficulties[menu.current_selection + 1], events, i + 1)
    ELSE MenuScreen_handle_events(menu, selected, events, i + 1)

\* ResultScreen.handle_events
ResultScreen_handle_events(result, events) ==
    [result EXCEPT
        !.should_retry = @ \/ Pressed(events, "K_r"),
        !.should_menu = @ \/ Pressed(events, "K_ESCAPE")
                          \/ Pressed(events, "K_m")]

\* a return to the menu that leaves the main beat playing
return_to_menu_beat_on ==
    /\ camera' = Released
    /\ state' = "MENU"
    /\ menu_screen' = MenuScreen_reset(menu_screen)
    /\ UNCHANGED music_playing

\* GameManager.return_to_menu
return_to_menu ==
    /\ camera' = Released
    /\ music_playing' = FALSE
    /\ state' = "MENU"
    /\ menu_screen' = MenuScreen_reset(menu_screen)

\* GameManager.handle_events
handle_events(events) ==
    /\ running' = (running /\ ~Pressed(events, "QUIT"))
    /\ IF state = "MENU"
       THEN \E m \in {MenuScreen_handle_events(menu_screen,
                          selected_difficulty, events, 1)} :
               /\ menu_screen' = m.menu
               /\ selected_difficulty' = m.selected_difficulty
               /\ UNCHANGED <<result_screen, music_playing, camera, state>>
       ELSE IF state = "RESULT"
       THEN /\ result_screen' =
                  ResultScreen_handle_events(result_screen, events)
            /\ UNCHANGED <<menu_screen, selected_difficulty,
                           music_playing, camera, state>>
       ELSE IF Pressed(events, "K_ESCAPE") /\ state = "PLAYING"
       THEN /\ return_to_menu
            /\ UNCHANGED <<result_screen, selected_difficulty>>
       ELSE UNCHANGED <<uiVars, selected_difficulty, camera, state>>
    /\ last_op' = [op |-> "events", quit |-> Pressed(events, "QUIT"),
                   escape |-> Pressed(events, "K_ESCAPE"),
                   menu_events |-> IF state = "MENU" THEN events ELSE << >>]
    /\ pc' = "update"
    /\ UNCHANGED <<countdown_time, warmup_objects, warmup_completed,
                   generator, run, rng, returned, game_beatmap, scoreVars,
                   noteVars, trackVars, game_time>>

\* the events of an iteration of GameManager.run
HandleEvents ==
    /\ pc = "events"
    /\ \E events \in EventLists : handle_events(events)

\* a main loop that does not test the running flag
AfterUpdate_forever(running_) == "events"

\* the end of GameManager.update: render, flip, and the test of the loop
AfterUpdate(running_) == IF running_ THEN "events" ELSE "cleanup"

\* GameManager.start_game
start_game ==
    /\ current_difficulty' = get_difficulty(selected_difficulty).name
    /\ \E opened \in (IF camera = None THEN BOOLEAN ELSE {camera.opened}) :
        /\ camera' = [opened |-> opened]
        /\ IF camera = None /\ ~opened
           THEN /\ running' = FALSE
                /\ last_op' = [op |-> "start_game",
                               reported |-> "Error: Cannot open camera"]
                /\ UNCHANGED <<countdown_time, warmup_objects,
                               warmup_completed, game_beatmap, objects,
                               removed, lanes, score_manager, game_time,
                               state, menu_screen, result_screen>>
           ELSE \E beatmap \in GameBeatmaps :
                /\ game_beatmap' = beatmap
                /\ lanes' = LaneManager
                /\ objects' = FallingObjectManager(beatmap,
                       get_difficulty(selected_difficulty).falling_speed)
                /\ removed' = {}
                /\ score_manager' = ScoreManagerInit
                /\ game_time' = 0
                /\ countdown_time' = COUNTDOWN_TIME
                /\ menu_screen' = MenuScreen_reset(menu_screen)
                /\ result_screen' = ResultScreen_reset(result_screen)
                /\ warmup_objects' = WarmupObjects(
                       get_difficulty(selected_difficulty).falling_speed)
                /\ warmup_completed' = FALSE
                /\ state' = "WARMUP"
                /\ last_op' = [op |-> "start_game", reported |-> "started",
                               from |-> state]
                /\ UNCHANGED running
    /\ UNCHANGED <<selected_difficulty, generator, run, rng, returned, stats,
                   prev_fingertip_positions, prev_chin_position,
                   music_playing>>

\* GameManager.update in the MENU state
MenuUpdate ==
    /\ pc = "update" /\ state = "MENU"
    /\ IF menu_screen.should_start THEN start_game
       ELSE /\ last_op' = [op |-> "menu"]
            /\ UNCHANGED <<loopVars, uiVars, camera, genVars, scoreVars,
                           noteVars, trackVars, game_time, state>>
    /\ pc' = AfterUpdate(running')

\* a warmup that ends as soon as its notes are on screen
all_passed_spawned(objs) == \A i \in 1..Len(objs) : objs[i].is_spawned

\* all_passed of the WARMUP update; obj.target_y, which FallingObject does
\* not set, is the OBJECT_TARGET_Y that FallingObject.update compares with
all_passed(objs) ==
    \A i \in 1..Len(objs) :
        objs[i].y > OBJECT_TARGET_Y + MissDistance \/ objs[i].is_dead

\* GameManager.update in the WARMUP state
WarmupUpdate ==
    /\ pc = "update" /\ state = "WARMUP"
    /\ \E dt \in Dts :
       \E updated \in {[i \in 1..Len(warmup_objects) |->
                           FallingObject_update(warmup_objects[i], dt,
                                                game_time + dt)]} :
        /\ warmup_objects' = updated
        /\ IF all_passed(updated) /\ ~warmup_completed
           THEN /\ warmup_completed' = TRUE
                /\ state' = "COUNTDOWN"
                /\ game_time' = 0
                /\ countdown_time' = COUNTDOWN_TIME
           ELSE /\ game_time' = game_time + dt
                /\ UNCHANGED <<warmup_completed, state, countdown_time>>
    /\ last_op' = [op |-> "warmup"]
    /\ pc' = AfterUpdate(running)
    /\ UNCHANGED <<running, uiVars, camera, genVars, scoreVars, noteVars,
                   trackVars>>

\* GameManager.update in the COUNTDOWN state
CountdownUpdate ==
    /\ pc = "update" /\ state = "COUNTDOWN"
    /\ \E dt \in Dts :
        /\ countdown_time' = countdown_time - dt
        /\ IF countdown_time - dt <= 0
           THEN state' = "PLAYING" /\ game_time' = 0 /\ music_playing' = TRUE
           ELSE UNCHANGED <<state, game_time, music_playing>>
    /\ last_op' = [op |-> "countdown"]
    /\ pc' = AfterUpdate(running)
    /\ UNCHANGED <<running, camera, warmup_objects, warmup_completed,
                   menu_screen, result_screen, genVars, scoreVars, noteVars,
                   trackVars>>

\* GameManager.update in the PLAYING state, no hand in the frames
PlayingUpdate ==
    /\ pc = "update"
    /\ update_gameplay({<< >>}, MaxNoFrameTime)
    /\ pc' = AfterUpdate(running)

\* GameManager.update in the RESULT state
ResultUpdate ==
    /\ pc = "update" /\ state = "RESULT"
    /\ IF result_screen.should_retry THEN start_game
       ELSE IF result_screen.should_menu
       THEN /\ return_to_menu
            /\ last_op' = [op |-> "result", choice |-> "menu"]
            /\ UNCHANGED <<loopVars, result_screen, genVars, scoreVars,
                           noteVars, trackVars, game_time>>
       ELSE /\ last_op' = [op |-> "result", choice |-> "none"]
            /\ UNCHANGED <<loopVars, uiVars, camera, genVars, scoreVars,
                           noteVars, trackVars, game_time, state>>
    /\ pc' = AfterUpdate(running')

\* GameManager.cleanup, at the exit of the main loop
Cleanup ==
    /\ pc = "cleanup"
    /\ camera' = Released
    /\ music_playing' = FALSE
    /\ pc' = "exited"
    /\ last_op' = [op |-> "cleanup"]
    /\ UNCHANGED <<loopVars, menu_screen, result_screen, genVars, scoreVars,
                   noteVars, trackVars, game_time, state>>

InitSession ==
    /\ score_manager = ScoreManagerInit
    /\ stats = NoStats
    /\ last_op = [op |-> "init"]
    /\ NoGame

NextSession ==
    \/ HandleEvents
    \/ MenuUpdate
    \/ WarmupUpdate
    \/ CountdownUpdate
    \/ PlayingUpdate
    \/ ResultUpdate
    \/ Cleanup

SpecSession == InitSession /\ [][NextSession]_vars

(***************************************************************************)
(* The session of a player who neither closes the window nor presses ESC   *)
(* and who retries from the result screen,                                 *)
(* the camera free to deliver no frame at any tick of the first            *)
(* MaxUnseenTime milliseconds of a game.  GameManager.run iterates as long *)
(* as running holds: the loop is weakly fair.                              *)
(***************************************************************************)
StayingEventLists ==
    {<< >>, <<"K_DOWN">>, <<"K_RETURN">>, <<"K_r">>}

StayingEvents ==
    /\ pc = "events"
    /\ \E events \in StayingEventLists : handle_events(events)

\* GameManager.update in the PLAYING state, camera.read() failing at will
PlayingUpdateUnseen ==
    /\ pc = "update"
    /\ update_gameplay({<< >>}, MaxUnseenTime)
    /\ pc' = AfterUpdate(running)

NextSessionLive ==
    \/ StayingEvents
    \/ MenuUpdate
    \/ WarmupUpdate
    \/ CountdownUpdate
    \/ PlayingUpdateUnseen
    \/ ResultUpdate
    \/ Cleanup

SpecSessionLive ==
    InitSession /\ [][NextSessionLive]_vars /\ WF_vars(NextSessionLive)

(***************************************************************************)
(* Claims on the notes and the CollisionDetector                           *)
(***************************************************************************)
\* the flags of note id in a state: the object while the manager holds it,
\* the flags logged at its purge afterwards
FlagsOf(objs, rem, id) ==
    IF \E i \in 1..Len(objs) : objs[i].id = id
    THEN Flags(objs[CHOOSE i \in 1..Len(objs) : objs[i].id = id])
    ELSE CHOOSE f \in rem : f.id = id

NoteIds(objs, rem) == Ids(objs) \cup {f.id : f \in rem}

FlagsConsistent(f) ==
    /\ ~(f.is_hit /\ f.is_missed)
    /\ f.is_dead => (f.is_hit \/ f.is_missed)

\* C2: for every note, in every reachable state, is_hit and is_missed are
\* never both true and is_dead implies is_hit or is_missed; no step clears
\* is_hit or is_missed once set.
C2_NoteFlags ==
    /\ [](\A id \in NoteIds(objects, removed) :
             FlagsConsistent(FlagsOf(objects, removed, id)))
    /\ [][\A id \in NoteIds(objects, removed) :
             /\ id \in NoteIds(objects', removed')
             /\ FlagsOf(objects, removed, id).is_hit
                  => FlagsOf(objects', removed', id).is_hit
             /\ FlagsOf(objects, removed, id).is_missed
                  => FlagsOf(objects', removed', id).is_missed
         ]_vars

C2_Witness ==
    /\ \E f \in removed : f.is_hit /\ f.is_dead /\ ~f.is_missed
    /\ \E f \in removed : f.is_missed /\ f.is_dead /\ ~f.is_hit

\* the object a check_hit step is applied to, before the call
Judged(objs, id) == objs[CHOOSE i \in 1..Len(objs) : objs[i].id = id]

RatingOf(result) == IF result = None THEN "MISS" ELSE result.rating

\* C4: check_hit returns no result and leaves the note (is_hit, is_missed,
\* is_dead, position) unchanged whenever the lane is not active, or the lane
\* is active but the absolute distance from the target exceeds ok_window.
C4_NoJudgment ==
    [][(/\ last_op'.op = "check_hit"
        /\ \/ ~last_op'.hand_in_lane
           \/ Abs(Judged(objects, last_op'.id).y - OBJECT_TARGET_Y)
                > get_difficulty(current_difficulty).ok_window)
       => /\ last_op'.result = None
          /\ objects' = objects
          /\ removed' = removed
      ]_vars

C4_Witness ==
    /\ last_op.op = "check_hit"
    /\ last_op.hand_in_lane
    /\ last_op.result = None
    /\ \E i \in 1..Len(objects) :
          /\ objects[i].id = last_op.id
          /\ IsActive(objects[i])
          /\ objects[i].y < OBJECT_TARGET_Y
               - get_difficulty(current_difficulty).ok_window

\* C5: an unhit, unmissed note judged with its lane active is rated PERFECT
\* iff |d| <= perfect_window, GOOD iff perfect_window < |d| <= good_window,
\* OK iff good_window < |d| <= ok_window (d = y - target y); with one of
\* these ratings the note is marked hit and the result carries 100, 50 or 25
\* points; d = 0 is PERFECT in every difficulty tier.
C5_Rating ==
    [][(/\ last_op'.op = "check_hit"
        /\ last_op'.hand_in_lane
        /\ ~Judged(objects, last_op'.id).is_hit
        /\ ~Judged(objects, last_op'.id).is_missed)
       => LET d      == Abs(Judged(objects, last_op'.id).y - OBJECT_TARGET_Y)
              tier   == get_difficulty(current_difficulty)
              rating == RatingOf(last_op'.result)
          IN /\ rating = "PERFECT" <=> d <= tier.perfect_window
             /\ rating = "GOOD" <=> (tier.perfect_window < d /\ d <= tier.good_window)
             /\ rating = "OK" <=> (tier.good_window < d /\ d <= tier.ok_window)
             /\ rating # "MISS" =>
                  /\ Judged(objects', last_op'.id).is_hit
                  /\ last_op'.result.success
                  /\ last_op'.result.points =
                       (IF rating = "PERFECT" THEN 100
                        ELSE IF rating = "GOOD" THEN 50 ELSE 25)
             /\ d = 0 => rating = "PERFECT"
      ]_vars

C5_Witness ==
    /\ last_op.op = "check_hit"
    /\ last_op.result # None
    /\ last_op.result.rating = "OK"
    /\ \E i \in 1..Len(objects) :
          /\ objects[i].id = last_op.id
          /\ objects[i].is_hit
          /\ objects[i].alpha = AlphaStart
          /\ objects[i].y = OBJECT_TARGET_Y
               - get_difficulty(current_difficulty).ok_window

\* the notes of a list that a window of half-width w around the target and
\* a set of active instruments select
Judgeable(notes, w, active) ==
    SelectSeq(notes, LAMBDA o : /\ o.instrument \in active
                                /\ Abs(o.y - OBJECT_TARGET_Y) <= w)

\* C22: check_multiple_objects judges each in-window note independently: the
\* returned list has at most one HitResult per note, a note gets a result iff
\* its instrument is a key of active_lanes and its rating is not MISS, and
\* two notes of different instruments with both lanes active are both hit
C22_IndependentJudging ==
    [][last_op'.op = "judge" =>
        LET zone == last_op'.objects_in_zone
            hit == Judgeable(zone,
                       get_difficulty(current_difficulty).ok_window,
                       DOMAIN last_op'.active_lanes)
        IN /\ Len(last_op'.hit_results) = Len(hit)
           /\ \A k \in 1..Len(hit) :
                 last_op'.hit_results[k].instrument = hit[k].instrument
           /\ \A i \in 1..Len(objects') :
                 objects'[i].is_hit <=>
                    \/ FlagsOf(objects, removed, objects'[i].id).is_hit
                    \/ \E k \in 1..Len(hit) : hit[k].id = objects'[i].id
      ]_vars

\* a hi-hat note and a snare note, both in the window with both lanes
\* active, are both hit in one frame
C22_Witness ==
    /\ last_op.op = "judge"
    /\ Len(last_op.objects_in_zone) = 2
    /\ Len(last_op.hit_results) = 2
    /\ last_op.hit_results[1].instrument = "hihat"
    /\ last_op.hit_results[2].instrument = "snare"
    /\ \A i \in 1..Len(objects) : objects[i].is_hit /\ objects[i].alpha = 255

\* the object of note id in a list that holds it
NoteOf(objs, id) == objs[CHOOSE i \in 1..Len(objs) : objs[i].id = id]

\* note id is spawned and not hit; note id is missed
SpawnedUnhit(id) ==
    \E i \in 1..Len(objects) :
        objects[i].id = id /\ objects[i].is_spawned /\ ~objects[i].is_hit
Missed(id) == \E f \in removed : f.id = id /\ f.is_missed /\ f.is_dead
Hit(id) ==
    \/ \E i \in 1..Len(objects) : objects[i].id = id /\ objects[i].is_hit
    \/ \E f \in removed : f.id = id /\ f.is_hit

\* C23: a note does not move while game time is below its spawn time; from
\* the first tick with current_time >= spawn_time it moves down by exactly
\* falling_speed per tick; an unhit note becomes missed and dead at the first
\* tick in which its y exceeds target_y + 100, not earlier, and leaves the
\* manager's list in that tick; every spawned unhit note is eventually
\* missed (unless it is hit) when the ticks go on
C23_NoteLifecycle ==
    /\ [][last_op'.op = "update" =>
            \A i \in 1..Len(objects) :
                LET o == objects[i]
                    speed == get_difficulty(current_difficulty).falling_speed
                IN IF ~o.is_spawned /\ game_time' < o.spawn_time
                   THEN /\ o.id \in Ids(objects')
                        /\ NoteOf(objects', o.id) = o
                   ELSE ~o.is_hit =>
                        IF o.y + speed > OBJECT_TARGET_Y + Px(100)
                        THEN /\ o.id \notin Ids(objects')
                             /\ \E f \in removed' :
                                   f.id = o.id /\ f.is_missed /\ f.is_dead
                        ELSE /\ o.id \in Ids(objects')
                             /\ NoteOf(objects', o.id) =
                                   [o EXCEPT !.y = o.y + speed,
                                             !.is_spawned = TRUE]
        ]_vars
    /\ \A id \in 1..2 : SpawnedUnhit(id) ~> (Missed(id) \/ Hit(id))

\* a note, never hit, has been missed and purged
C23_Witness ==
    /\ \E f \in removed : f.is_missed /\ f.is_dead /\ ~f.is_hit
    /\ last_op.op = "update"
    /\ objects = << >>

\* note id is hit and fading in the manager's list; it is dead and purged
Fading(id) ==
    \E i \in 1..Len(objects) : objects[i].id = id /\ objects[i].is_hit
FadedOut(id) ==
    \E f \in removed : f.id = id /\ f.is_hit /\ f.is_dead

\* C24: a hit note is never turned into a miss, also when it passes
\* target_y + 100; it is hit at alpha 255, loses 15 alpha in every update
\* and is dead exactly in the update that brings its alpha to 0, the 17th
\* after the hit, in which it leaves the manager's list; every hit note is
\* eventually dead when the ticks go on
C24_HitNoteFades ==
    /\ [](/\ \A i \in 1..Len(objects) :
                LET o == objects[i]
                IN /\ ~o.is_hit => o.alpha = 255
                   /\ o.is_hit =>
                        /\ ~o.is_missed /\ ~o.is_dead
                        /\ \E k \in 0..16 : o.alpha = 255 - 15 * k
          /\ \A f \in removed : f.is_hit => ~f.is_missed)
    /\ [][last_op'.op = "update" =>
            \A i \in 1..Len(objects) :
                LET o == objects[i]
                IN o.is_hit =>
                     IF o.alpha = 15
                     THEN /\ o.id \notin Ids(objects')
                          /\ \E f \in removed' :
                                f.id = o.id /\ f.is_dead /\ ~f.is_missed
                     ELSE /\ o.id \in Ids(objects')
                          /\ NoteOf(objects', o.id).alpha = o.alpha - 15
                          /\ ~NoteOf(objects', o.id).is_dead
        ]_vars
    /\ \A id \in 1..2 : Fading(id) ~> FadedOut(id)

\* a hit note is in its last update before it is dead, below
\* target_y + 100, where an unhit note is missed
C24_Witness ==
    /\ last_op.op = "update"
    /\ \E i \in 1..Len(objects) :
          /\ objects[i].is_hit /\ ~objects[i].is_missed
          /\ objects[i].alpha = 15
          /\ objects[i].y > OBJECT_TARGET_Y + Px(100)

(***************************************************************************)
(* Claims on the lanes                                                     *)
(***************************************************************************)
\* two axis-aligned rectangles share a pixel
SharePixel(a, b) ==
    /\ Max(a.x, b.x) < Min(a.x + a.width, b.x + b.width)
    /\ Max(a.y, b.y) < Min(a.y + a.height, b.y + b.height)

\* the zones of the control scheme of a lane in a frame, with the square of
\* each zone's velocity since the previous frame (0 without a previous
\* record of the label)
ControlZones(lane, fingertips, chin, prev_fingertips, prev_chin) ==
    IF lane.instrument = "hihat"
    THEN IF chin = None THEN {}
         ELSE {[zone |-> chin,
                speed2 |-> IF prev_chin = None THEN 0
                           ELSE SquaredSpeed(chin, prev_chin)]}
    ELSE {[zone |-> fingertips[k][2],
           speed2 |-> IF DictHas(prev_fingertips, fingertips[k][1])
                      THEN SquaredSpeed(fingertips[k][2],
                               DictGet(prev_fingertips, fingertips[k][1]))
                      ELSE 0] : k \in 1..Len(fingertips)}

\* C3: a frame marks a lane active iff some tracked zone of that lane's
\* control overlaps the lane rectangle and that same zone's velocity is at
\* least velocity_threshold; a zone with velocity 0 never activates a lane.
C3_VelocityGate ==
    [][last_op'.op = "frame" =>
        \A i \in 1..Len(lanes') :
            LET zones == ControlZones(lanes'[i], prev_fingertip_positions',
                             prev_chin_position', prev_fingertip_positions,
                             prev_chin_position)
            IN /\ lanes'[i].is_active <=>
                    \E z \in zones :
                        /\ SharePixel(z.zone, lanes'[i])
                        /\ z.speed2 >= velocity_threshold * velocity_threshold
               /\ lanes'[i].is_active <=>
                    lanes'[i].instrument \in DOMAIN last_op'.active_lanes
               /\ (\A z \in zones : z.speed2 = 0) => ~lanes'[i].is_active
      ]_vars

\* both hands are in the kick lane, the one detected first is too slow and
\* the second one activates the lane
C3_Witness ==
    /\ last_op.op = "frame"
    /\ Len(prev_fingertip_positions) = 2
    /\ prev_fingertip_positions[1][1] = "Left"
    /\ \A k \in 1..2 : SharePixel(prev_fingertip_positions[k][2], lanes[1])
    /\ lanes[1].is_active
    /\ last_op.active_lanes["kick"] = "Right"

\* C17: the velocity of a label (Left, Right, Chin) detected in a frame
\* without a record in the previous-frame history is 0; the history is
\* replaced by every processed frame, so a control never activates a lane in
\* the first frame it is detected, nor in the first frame after a frame that
\* did not detect it
C17_FirstFrameInert ==
    [][last_op'.op = "frame" =>
        LET cur == last_op'.fingertip_positions
            chin == last_op'.chin_position
            v == calculate_velocity(cur, prev_fingertip_positions)
        IN /\ \A k \in 1..Len(cur) :
                  ~DictHas(prev_fingertip_positions, cur[k][1])
                      => DictGet(v, cur[k][1]) = 0
           /\ (chin # None /\ prev_chin_position = None)
                  => calculate_chin_velocity(chin, prev_chin_position) = 0
           /\ prev_fingertip_positions' = cur
           /\ prev_chin_position' = chin
           /\ \A c \in Controls(cur, chin) \ DetectedIn(last_op) :
                  \A inst \in DOMAIN last_op'.active_lanes :
                      last_op'.active_lanes[inst] # c
      ]_vars

\* a hand detected inside the kick lane, in a frame after one that did not
\* detect it but detected the other hand, leaves the lane inactive
C17_Witness ==
    /\ last_op.op = "frame"
    /\ last_op.first_seen = {"Left"}
    /\ Len(last_op.fingertip_positions) = 2
    /\ \E k \in 1..2 :
          /\ last_op.fingertip_positions[k][1] = "Left"
          /\ SharePixel(last_op.fingertip_positions[k][2], lanes[1])
    /\ ~lanes[1].is_active

\* C19: lane activation has no memory: after every call of
\* check_collisions_with_velocity each lane's is_active is true iff the
\* lane's instrument is a key of the returned map, so a lane active in one
\* frame is inactive in the next one when no control activates it there
C19_NoActivationMemory ==
    [][last_op'.op = "frame" =>
        \A i \in 1..Len(lanes') :
            /\ lanes'[i].is_active
                  = (lanes'[i].instrument \in DOMAIN last_op'.active_lanes)
            /\ (/\ lanes[i].is_active
                /\ ActivatingControl(lanes[i], last_op'.fingertip_positions,
                       last_op'.chin_position,
                       calculate_velocity(last_op'.fingertip_positions,
                                          prev_fingertip_positions),
                       IF last_op'.chin_position # None
                       THEN calculate_chin_velocity(last_op'.chin_position,
                                                    prev_chin_position)
                       ELSE 0,
                       velocity_threshold) = NoControl)
                  => ~lanes'[i].is_active
      ]_vars

\* the kick lane, active in the previous frame, is inactive in this one
\* although a hand is still inside it
C19_Witness ==
    /\ last_op.op = "frame"
    /\ "kick" \in last_op.released
    /\ ~lanes[1].is_active
    /\ "kick" \notin DOMAIN last_op.active_lanes
    /\ \E k \in 1..Len(last_op.fingertip_positions) :
          SharePixel(last_op.fingertip_positions[k][2], lanes[1])

\* the fingertips of a frame that overlap a lane with at least the threshold
\* velocity, given the history of the frame before
FastFingertips(lane, fingertips, prev_fingertips) ==
    {k \in 1..Len(fingertips) :
        /\ SharePixel(fingertips[k][2], lane)
        /\ DictHas(prev_fingertips, fingertips[k][1])
        /\ SquaredSpeed(fingertips[k][2],
                        DictGet(prev_fingertips, fingertips[k][1]))
              >= velocity_threshold * velocity_threshold}

\* C20: the hi-hat lane is activated only by the chin (control "Chin"), never
\* by a fingertip; the kick and snare lanes only by a fingertip (control: the
\* hand's label), never by the chin; a hand that overlaps a lane below the
\* threshold does not keep the other hand from activating it in that frame
C20_ControlScheme ==
    [][last_op'.op = "frame" =>
        \A i \in 1..Len(lanes') :
            LET inst == lanes'[i].instrument
                active == inst \in DOMAIN last_op'.active_lanes
                fast == FastFingertips(lanes'[i], last_op'.fingertip_positions,
                                       prev_fingertip_positions)
            IN IF inst = "hihat"
               THEN active =>
                       /\ last_op'.active_lanes[inst] = "Chin"
                       /\ last_op'.chin_position # None
                       /\ SharePixel(last_op'.chin_position, lanes'[i])
               ELSE /\ active =>
                       \E k \in fast : last_op'.active_lanes[inst]
                                          = last_op'.fingertip_positions[k][1]
                    /\ fast # {} => active
      ]_vars

\* both hands are in the snare lane, the right one detected first and too
\* slow, the left one activates it; the chin is inside the kick lane, which
\* stays inactive
C20_Witness ==
    /\ last_op.op = "frame"
    /\ Len(last_op.fingertip_positions) = 2
    /\ last_op.fingertip_positions[1][1] = "Right"
    /\ \A k \in 1..2 : SharePixel(last_op.fingertip_positions[k][2], lanes[3])
    /\ DOMAIN last_op.active_lanes = {"snare"}
    /\ last_op.active_lanes["snare"] = "Left"
    /\ last_op.chin_position # None
    /\ SharePixel(last_op.chin_position, lanes[1])

(***************************************************************************)
(* Claims on the gameplay tick                                             *)
(***************************************************************************)
\* the notes that become missed in a step
NewlyMissed ==
    {id \in NoteIds(objects, removed) :
        /\ ~FlagsOf(objects, removed, id).is_missed
        /\ FlagsOf(objects', removed', id).is_missed}

\* C1: during PLAYING, a tick in which a spawned note passes target_y + 100
\* without having been hit (it becomes missed) ends with miss_count grown by
\* one for each such note, combo 0 and multiplier 1.0.
C1_MissRegistered ==
    [][(state = "PLAYING" /\ NewlyMissed # {})
          => /\ score_manager'.miss_count =
                    score_manager.miss_count + Cardinality(NewlyMissed)
             /\ score_manager'.combo = 0
             /\ score_manager'.current_multiplier = 10
      ]_vars

\* C18: a frame with no hand and no face is no input: no fingertip zone, no
\* chin, no lane active, no note hit, the game stays in PLAYING; the notes
\* advance as in any frame and can become missed
C18_NoInputFrame ==
    [][(last_op'.op = "frame" /\ last_op'.hands = 0 /\ ~last_op'.face) =>
          /\ prev_fingertip_positions' = << >>
          /\ prev_chin_position' = None
          /\ DOMAIN last_op'.active_lanes = {}
          /\ \A i \in 1..Len(lanes') : ~lanes'[i].is_active
          /\ last_op'.hit_results = << >>
          /\ score_manager'.total_hits = score_manager.total_hits
          /\ score_manager'.score = score_manager.score
          /\ state' = "PLAYING"
          /\ objects' = FallingObjectManager_update(objects,
                            game_time' - game_time, game_time')
      ]_vars

\* a frame without hand and face in which a note went past the miss line
C18_Witness ==
    /\ last_op.op = "frame"
    /\ last_op.hands = 0
    /\ ~last_op.face
    /\ \E f \in last_op.purged : f.is_missed
    /\ state = "PLAYING"
    /\ prev_fingertip_positions = << >>

\* the notes of objects' that a step marks hit
NewlyHit ==
    {i \in 1..Len(objects') :
        /\ objects'[i].is_hit
        /\ ~FlagsOf(objects, removed, objects'[i].id).is_hit}

\* C21: when several unhit notes of one instrument are inside the hit window
\* in a frame that activates the instrument's lane, the hit is applied to the
\* note closest to its target and only that note is marked hit in the frame
C21_ClosestNoteOnly ==
    [][last_op'.op = "frame" =>
        \A i \in NewlyHit :
            /\ \A j \in NewlyHit :
                  objects'[j].instrument = objects'[i].instrument => j = i
            /\ \A j \in 1..Len(objects') :
                  (/\ objects'[j].instrument = objects'[i].instrument
                   /\ objects'[j].is_spawned
                   /\ InHitZone(objects'[j]))
                  => Abs(get_distance_from_target(objects'[i]))
                        <= Abs(get_distance_from_target(objects'[j]))
      ]_vars

\* the notes of the game that have been hit
HitNotes ==
    {id \in NoteIds(objects, removed) : FlagsOf(objects, removed, id).is_hit}

\* every hit note is out of the hit-zone query and counted once
CountedOnce ==
    /\ \A i \in 1..Len(objects) :
          objects[i].is_hit
              => objects[i].id \notin Ids(get_objects_in_hit_zone(objects))
    /\ score_manager.total_hits = Cardinality(HitNotes)
    /\ score_manager.perfect_count + score_manager.good_count
          + score_manager.ok_count = score_manager.total_hits
    /\ score_manager.total_hits + score_manager.miss_count
          <= Cardinality(NoteIds(objects, removed))

\* C30: over a whole game each note is awarded at most one hit: a note that
\* has been hit is not in the hit-zone query of any later frame, every
\* HitResult of a frame belongs to a note that was not hit before, so
\* total_hits and the rating counters count every hit note once, and
\* total_hits + miss_count never exceeds the number of beatmap notes
C30_OneHitPerNote ==
    [][/\ CountedOnce /\ CountedOnce'
       /\ last_op'.op = "frame"
            => /\ Len(last_op'.hit_results) = Cardinality(NewlyHit)
               /\ score_manager'.total_hits
                     = score_manager.total_hits + Cardinality(NewlyHit)
               /\ score_manager'.combo
                     = score_manager.combo + Cardinality(NewlyHit)
       /\ \A id \in HitNotes : FlagsOf(objects', removed', id).is_hit
    ]_vars

\* both notes of the game have been hit, the first one has faded out, and the
\* frames have gone on
C30_Witness ==
    /\ last_op.op = "frame"
    /\ last_op.hit_results = << >>
    /\ score_manager.total_hits = 2
    /\ \E f \in removed : f.is_hit
    /\ \E i \in 1..Len(objects) : objects[i].is_hit /\ InHitZone(objects[i])

\* C31: a note that a frame marks hit is, at that moment, less than 150 px
\* before its target and at most 100 px past it
C31_HitDistance ==
    [][last_op'.op = "frame" =>
        \A i \in NewlyHit :
            /\ -Px(150) < get_distance_from_target(objects'[i])
            /\ get_distance_from_target(objects'[i]) <= Px(100)
      ]_vars

\* a frame has just hit a note that is more than 90 px past its target,
\* within one step of the miss line
C31_Witness ==
    /\ last_op.op = "frame"
    /\ Len(last_op.hit_results) = 1
    /\ \E i \in 1..Len(objects) :
          /\ objects[i].is_hit
          /\ objects[i].alpha = 255
          /\ get_distance_from_target(objects[i]) > Px(90)
          /\ get_distance_from_target(objects[i]) + objects[i].falling_speed
                > Px(100)

\* a spawned, unhit kick note of the tier's game at height y
NoteAt(difficulty, y) ==
    [FallingObject(1, "kick", 0, get_difficulty(difficulty).falling_speed)
        EXCEPT !.is_spawned = TRUE, !.y = y]

\* the ratings a frame's judging (hit-zone query, then check_multiple_objects)
\* awards to that note when the kick lane is active
JudgedAs(difficulty, y) ==
    LET objs == <<NoteAt(difficulty, y)>>
        r == check_multiple_objects(DetectorOf(difficulty), objs,
                 Ids(get_objects_in_hit_zone(objs)), [inst \in {"kick"} |-> "Left"])
    IN {r.hit_results[k].rating : k \in 1..Len(r.hit_results)}

\* C32: in the game of each tier each of PERFECT, GOOD and OK can be
\* awarded: for the tier being played and each rating there is a height
\* between the spawn line and the miss line (target_y + 100) at which the
\* judging of a frame awards that rating to a note
C32_EachRatingAwarded ==
    \A rating \in {"PERFECT", "GOOD", "OK"} :
        \E y \in (OBJECT_SPAWN_Y + 1)..(OBJECT_TARGET_Y + Px(100)) :
            rating \in JudgedAs(current_difficulty, y)

\* C32, what the games do: no frame of an EASY or MEDIUM game awards OK
C32_OkOnlyInHard ==
    last_op.op = "frame" =>
        \A k \in 1..Len(last_op.hit_results) :
            last_op.hit_results[k].rating = "OK" => current_difficulty = "HARD"

Projected == last_op.op \in {"project", "project_chin"}

FlashOf(ls) == [i \in 1..Len(ls) |-> <<ls[i].is_hit, ls[i].hit_timer>>]
ActivationOf(ls) == [i \in 1..Len(ls) |-> ls[i].is_active]

C27_NoFrameTick ==
    [][last_op'.op = "no_frame"
        => /\ game_time' \in {game_time + dt : dt \in GameDts}
           /\ game_time' < total_game_duration
           /\ objects' = objects /\ removed' = removed
           /\ score_manager' = score_manager
           /\ lanes' = lanes
           /\ prev_fingertip_positions' = prev_fingertip_positions
           /\ prev_chin_position' = prev_chin_position
           /\ state' = state /\ camera' = camera /\ running' = running
    ]_vars

\* a tick without frame has left a lane active, the velocity history filled
\* and the first note on its way
C27_Witness ==
    /\ last_op.op = "no_frame"
    /\ \E i \in 1..Len(lanes) : lanes[i].is_active
    /\ prev_fingertip_positions # << >>
    /\ objects[1].is_spawned /\ objects[1].y > OBJECT_SPAWN_Y
    /\ game_time > FrameMs

(***************************************************************************)
(* Claims on the session: the main loop, the camera                       *)
(***************************************************************************)
\* the camera of the last start_game could not be opened
OpenFailed == camera # None /\ ~camera.opened

\* C25: when the camera cannot be opened in start_game, called from the menu
\* or by retry, the failure is reported, the running flag is false, the state
\* is left as it was and never becomes WARMUP, COUNTDOWN or PLAYING, and the
\* next step of the main loop is cleanup, after which the loop has ended
C25_CameraOpenFailure ==
    /\ [][(camera = None /\ OpenFailed')
            => /\ state \in {"MENU", "RESULT"}
               /\ last_op' = [op |-> "start_game",
                              reported |-> "Error: Cannot open camera"]
               /\ ~running'
               /\ state' = state
               /\ pc' = "cleanup"
        ]_vars
    /\ [][OpenFailed => /\ pc = "cleanup" /\ pc' = "exited"
                        /\ state' = state /\ ~running'
        ]_vars
    /\ [](OpenFailed =>
            [](/\ state \notin {"WARMUP", "COUNTDOWN", "PLAYING"}
               /\ ~running
               /\ pc \in {"cleanup", "exited"}))

\* a retry from the result screen has found no camera: the loop is about to
\* end
C25_Witness ==
    /\ state = "RESULT"
    /\ OpenFailed
    /\ ~running
    /\ pc = "cleanup"
    /\ last_op.op = "start_game"

Session == {"WARMUP", "COUNTDOWN", "PLAYING"}

\* C26 as stated: the camera handle is None whenever the state becomes RESULT
\* or MENU and after cleanup, and a handle is held only in WARMUP, COUNTDOWN
\* and PLAYING
C26_HeldOnlyInSession ==
    /\ [][(state' # state /\ state' \in {"RESULT", "MENU"})
            => camera' = None]_vars
    /\ [](pc = "exited" => camera = None)
    /\ [](camera # None => state \in Session)

\* C26, amended: the camera handle is None whenever the state becomes RESULT
\* (game time reached the duration) or MENU (ESC while PLAYING, menu chosen
\* on the result screen) and after cleanup; an opened camera is held only in
\* WARMUP, COUNTDOWN and PLAYING; outside these states the handle is None,
\* except for the unopened handle of a failed start_game, which stays until
\* the cleanup that follows
C26_CameraReleased ==
    /\ [][(state' # state /\ state' \in {"RESULT", "MENU"})
            => camera' = None]_vars
    /\ [](pc = "exited" => camera = None)
    /\ [](camera # None
            => \/ state \in Session /\ camera.opened
               \/ state \notin Session /\ OpenFailed /\ pc = "cleanup")
    /\ []((state \in Session /\ pc # "exited") => camera # None)

\* ESC during play has brought the game back to the menu, the camera released
C26_Witness ==
    /\ last_op.op = "events"
    /\ last_op.escape
    /\ state = "MENU"
    /\ camera = None
    /\ game_time > 0
    /\ warmup_completed

(***************************************************************************)
(* Claims on the states of the game and on the screens                     *)
(***************************************************************************)
\* the transitions of GameManager.state
StateEdges ==
    {<<"MENU", "WARMUP">>, <<"WARMUP", "COUNTDOWN">>,
     <<"COUNTDOWN", "PLAYING">>, <<"PLAYING", "RESULT">>,
     <<"RESULT", "WARMUP">>, <<"RESULT", "MENU">>, <<"PLAYING", "MENU">>}

\* a note set no note of which has been spawned, moved or judged
FreshNotes(objs, beatmap) ==
    /\ Len(objs) = Len(beatmap)
    /\ \A i \in 1..Len(objs) :
          objs[i] = FallingObject(objs[i].id, beatmap[i][2], beatmap[i][1],
                                  objs[i].falling_speed)

\* C35: the state changes only along MENU -> WARMUP -> COUNTDOWN -> PLAYING
\* -> RESULT, RESULT -> WARMUP, RESULT -> MENU and PLAYING -> MENU; PLAYING
\* is entered only from COUNTDOWN, the countdown run out, the game time 0,
\* the ScoreManager fresh and no note spawned; the main beat is playing only
\* while the state is PLAYING.
C35_StateMachine ==
    /\ [][/\ state' # state => <<state, state'>> \in StateEdges
          /\ (state' = "PLAYING" /\ state # "PLAYING")
                => /\ state = "COUNTDOWN"
                   /\ countdown_time' <= 0
                   /\ game_time' = 0
                   /\ score_manager' = ScoreManagerInit
                   /\ FreshNotes(objects', game_beatmap')
                   /\ removed' = {}
                   /\ ~music_playing /\ music_playing'
       ]_vars
    /\ [](music_playing => state = "PLAYING")

\* a game started from the menu in the HARD tier has just entered PLAYING
C35_Witness ==
    /\ last_op.op = "countdown"
    /\ state = "PLAYING"
    /\ music_playing
    /\ current_difficulty = "HARD"
    /\ countdown_time <= 0
    /\ score_manager = ScoreManagerInit
    /\ game_time = 0

LastStart(events) ==
    LET starts == {i \in 1..Len(events) : events[i] \in {"K_RETURN", "K_SPACE"}}
    IN IF starts = {} THEN 0 ELSE CHOOSE i \in starts : \A j \in starts : j <= i

\* the highlighted index once the first n events are handled
RECURSIVE Highlighted(_, _, _)
Highlighted(current_selection, events, n) ==
    IF n = 0 THEN current_selection
    ELSE LET before == Highlighted(current_selection, events, n - 1)
         IN IF events[n] = "K_UP" THEN SelectionUp(before)
            ELSE IF events[n] = "K_DOWN" THEN SelectionDown(before)
            ELSE before

\* C37: a retry from the result screen starts the new game in the tier of
\* the game just played; a game started from the menu is in the tier that
\* was highlighted when ENTER or SPACE was pressed; the highlighted index
\* stays within 0..2.
C37_DifficultyKept ==
    [][/\ menu_screen'.current_selection \in 0..2
       /\ (state = "RESULT" /\ state' = "WARMUP")
             => /\ current_difficulty' = current_difficulty
                /\ selected_difficulty' = selected_difficulty
       /\ (state = "MENU" /\ last_op'.op = "events"
                          /\ LastStart(last_op'.menu_events) > 0)
             => /\ menu_screen'.should_start
                /\ selected_difficulty' =
                      difficulties[Highlighted(menu_screen.current_selection,
                                       last_op'.menu_events,
                                       LastStart(last_op'.menu_events)) + 1]
       /\ (state = "MENU" /\ state' = "WARMUP")
             => /\ last_op.op = "events"
                /\ LastStart(last_op.menu_events) > 0
                /\ current_difficulty' = selected_difficulty
      ]_vars

\* a retry has started a second game in the HARD tier, the menu highlight
\* back on MEDIUM
C37_Witness ==
    /\ last_op.op = "start_game"
    /\ last_op.reported = "started"
    /\ last_op.from = "RESULT"
    /\ state = "WARMUP"
    /\ current_difficulty = "HARD"
    /\ menu_screen.current_selection = 1

\* C38: the feedback shown for an awarded hit has the text of the hit's
\* rating and the colour get_timing_feedback maps to that rating (PERFECT
\* green, GOOD blue, OK yellow).
C38_FeedbackMatchesRating ==
    last_op.op = "frame"
        => \A i \in 1..Len(last_op.hit_results) :
              /\ last_op.feedbacks[i].feedback_text
                    = last_op.hit_results[i].rating
              /\ last_op.feedbacks[i].feedback_color
                    = feedback_map[last_op.hit_results[i].rating].color

\* what the code does: the text is the rating of the hit, the colour is
\* that of a hit at distance 0, the green of PERFECT
C38_FeedbackGreen ==
    last_op.op = "frame"
        => /\ Len(last_op.feedbacks) = Len(last_op.hit_results)
           /\ \A i \in 1..Len(last_op.hit_results) :
                 /\ last_op.feedbacks[i].feedback_text
                       = last_op.hit_results[i].rating
                 /\ last_op.feedbacks[i].feedback_color
                       = feedback_map["PERFECT"].color

(***************************************************************************)
(* Claims on the ScoreManager                                              *)
(***************************************************************************)
\* the multiplier table as the specification words it (tenths)
TableMultiplier(combo) ==
    IF combo >= 50 THEN 25
    ELSE IF combo >= 30 THEN 20
    ELSE IF combo >= 20 THEN 15
    ELSE IF combo >= 10 THEN 12
    ELSE 10

RatingCount(sm, rating) ==
    CASE rating = "PERFECT" -> sm.perfect_count
      [] rating = "GOOD"    -> sm.good_count
      [] rating = "OK"      -> sm.ok_count

AwardedHitStep ==
    /\ last_op'.op = "add_hit"
    /\ last_op'.hit_result.success

\* C6: in every reachable ScoreManager state current_multiplier is the table
\* value of the current combo (1.0 below 10, 1.2 for 10..19, 1.5 for 20..29,
\* 2.0 for 30..49, 2.5 from 50 on).
C6_MultiplierOfCombo ==
    score_manager.current_multiplier = TableMultiplier(score_manager.combo)

C6_Witness ==
    /\ last_op.op = "add_hit"
    /\ score_manager.combo = 50
    /\ score_manager.current_multiplier = 25

\* round(x) of Python for x = n / 10 >= 0: to the nearest integer, a half to
\* the even neighbour
RoundTenths(n) ==
    LET q == n \div 10
        r == n % 10
    IN IF r > 5 \/ (r = 5 /\ q % 2 = 1) THEN q + 1 ELSE q

\* C7 as stated: an awarded hit increments combo and the counter of its
\* rating and adds round(basePoints x multiplier) to score, the multiplier
\* being the table value of the combo after the increment.
C7_RoundedPoints ==
    [][AwardedHitStep =>
        LET hr == last_op'.hit_result IN
        /\ score_manager'.combo = score_manager.combo + 1
        /\ RatingCount(score_manager', hr.rating)
             = RatingCount(score_manager, hr.rating) + 1
        /\ score_manager'.score = score_manager.score
             + RoundTenths(hr.points * TableMultiplier(score_manager'.combo))
      ]_vars

\* C7 amended: an awarded hit increments combo and the counter of its rating
\* and adds basePoints x multiplier truncated to an integer (int(), so
\* 25 x 1.5 adds 37) to score, the multiplier being the table value of the
\* combo after the increment.
C7_TruncatedPoints ==
    [][AwardedHitStep =>
        LET hr == last_op'.hit_result IN
        /\ score_manager'.combo = score_manager.combo + 1
        /\ RatingCount(score_manager', hr.rating)
             = RatingCount(score_manager, hr.rating) + 1
        /\ score_manager'.score = score_manager.score
             + (hr.points * TableMultiplier(score_manager'.combo)) \div 10
      ]_vars

C7_Witness ==
    /\ last_op.op = "add_hit"
    /\ last_op.hit_result.rating = "OK"
    /\ score_manager.combo = 20
    /\ score_manager.score = 9 * 100 + 10 * 120 + 37

\* C8: add_miss, from any state, sets combo to 0 and the multiplier to 1.0,
\* increments miss_count by one and leaves score, max_combo, total_hits and
\* the perfect/good/ok counters unchanged.
C8_MissEffect ==
    [][last_op'.op = "add_miss" =>
        /\ score_manager'.combo = 0
        /\ score_manager'.current_multiplier = 10
        /\ score_manager'.miss_count = score_manager.miss_count + 1
        /\ score_manager'.score = score_manager.score
        /\ score_manager'.max_combo = score_manager.max_combo
        /\ score_manager'.total_hits = score_manager.total_hits
        /\ score_manager'.perfect_count = score_manager.perfect_count
        /\ score_manager'.good_count = score_manager.good_count
        /\ score_manager'.ok_count = score_manager.ok_count
      ]_vars

C8_Witness ==
    /\ last_op.op = "add_miss"
    /\ score_manager.max_combo >= 50
    /\ score_manager.combo = 0
    /\ score_manager.miss_count = 1

\* C9: within one game (no reset) score is a non-negative integer that never
\* decreases, max_combo never decreases, and max_combo >= combo >= 0 in
\* every state.
C9_Monotone ==
    /\ [](/\ score_manager.score \in Nat
          /\ score_manager.max_combo >= score_manager.combo
          /\ score_manager.combo >= 0)
    /\ [][last_op'.op # "reset" =>
            /\ score_manager'.score >= score_manager.score
            /\ score_manager'.max_combo >= score_manager.max_combo
         ]_vars

C9_Witness ==
    /\ last_op.op = "add_hit"
    /\ score_manager.miss_count = 1
    /\ score_manager.combo = 1
    /\ score_manager.max_combo > 1
    /\ score_manager.score > 100

\* get_accuracy before the clamp: (weighted_hits / total_notes) * 100
RawAccuracy(sm) ==
    FloatMulInt(
        FloatDivInt(
            FloatAdd(FloatAdd(FloatMulInt(FloatOfInt(1), sm.perfect_count),
                              FloatMulInt(Float_0_7, sm.good_count)),
                     FloatMulInt(Float_0_4, sm.ok_count)),
            sm.total_hits + sm.miss_count),
        100)

\* C33: in every ScoreManager state reached through add_hit on the judge's
\* results and add_miss, total_hits = perfect_count + good_count + ok_count,
\* the weighted hit count does not exceed the number of judged notes, and
\* the accuracy get_stats_dict reports lies in [0, 100] and is the value
\* before the clamp
C33_CountsAndAccuracy ==
    /\ score_manager.total_hits =
          score_manager.perfect_count + score_manager.good_count
              + score_manager.ok_count
    /\ 100 * score_manager.perfect_count + 70 * score_manager.good_count
          + 40 * score_manager.ok_count
          <= 100 * (score_manager.total_hits + score_manager.miss_count)
    /\ last_op.op = "get_stats_dict" =>
          /\ BigGeq(stats.accuracy, << >>)
          /\ BigGeq(FloatOfInt(100), stats.accuracy)
          /\ score_manager.total_hits + score_manager.miss_count > 0
                => stats.accuracy = RawAccuracy(score_manager)

\* the statistics read after perfect hits, a good hit and a miss: the
\* accuracy is between 50 and 100
C33_Witness ==
    /\ last_op.op = "get_stats_dict"
    /\ score_manager.perfect_count > 1
    /\ score_manager.good_count = 1
    /\ score_manager.miss_count = 1
    /\ BigCmp(stats.accuracy, FloatOfInt(100)) < 0
    /\ BigCmp(stats.accuracy, FloatOfInt(50)) > 0

\* C34: after get_pattern_for_loop has returned the generator is configured
\* as before the call, and the generate() that follows returns a beatmap for
\* the original duration: with the same seed, the beatmap the generate()
\* before the call returned
C34_ConfigRestored ==
    /\ last_op.op = "pattern_returned" => generator = last_op.original
    /\ (Len(returned) = 3 /\ run.pc = "idle") => returned[3] = returned[1]

\* C34, what the code does: the duration is restored, the beat count is the
\* one of the loop; the smart and complex families, which read the duration,
\* generate as before, the simple family generates loop_duration's beats
C34_DurationRestored ==
    /\ last_op.op = "pattern_returned" =>
          /\ generator.duration = last_op.original.duration
          /\ generator.total_beats =
                last_op.loop_duration \div generator.beat_interval
    /\ (Len(returned) = 3 /\ run.pc = "idle") =>
          IF generator.pattern_type = "simple"
          THEN Len(returned[3]) = generator.total_beats
          ELSE returned[3] = returned[1]

\* hundredths of the weighted hit count
WeightedHundredths(sm) ==
    100 * sm.perfect_count + 70 * sm.good_count + 40 * sm.ok_count

JudgedNotes(sm) == sm.total_hits + sm.miss_count

\* the rank of the accuracy 100 * w / (100 * n) in exact arithmetic
ExactRank(w, n) ==
    IF n = 0 THEN "D"
    ELSE IF w >= 95 * n THEN "S"
    ELSE IF w >= 85 * n THEN "A"
    ELSE IF w >= 70 * n THEN "B"
    ELSE IF w >= 50 * n THEN "C"
    ELSE "D"

\* |x - w / 100| <= 2^-30 for the float x, as x * n against w / n
NearExact(x, w, n) ==
    LET lhs == BigMulSmall(x, n)
        rhs == FloatOfInt(w)
        tol == BigShl(BigFromInt(n), FloatScale - 30)
    IN BigGeq(BigAdd(lhs, tol), rhs) /\ BigGeq(BigAdd(rhs, tol), lhs)

\* C10: get_accuracy returns (perfect x 1.0 + good x 0.7 + ok x 0.4) /
\* (total_hits + miss_count) x 100 clamped to 100 (0 when nothing was
\* judged), up to float precision, and get_rank maps the accuracy to
\* S >= 95, A >= 85, B >= 70, C >= 50, else D.
C10_AccuracyAndRank ==
    last_op.op = "get_stats_dict" =>
        LET w == WeightedHundredths(score_manager)
            n == JudgedNotes(score_manager)
        IN /\ IF n = 0 THEN stats.accuracy = << >>
              ELSE NearExact(stats.accuracy, Min(w, 100 * n), n)
           /\ stats.rank = ExactRank(w, n)


(***************************************************************************)
(* Claims on the difficulty tiers and the beatmap                          *)
(***************************************************************************)
WindowsOrdered(d) ==
    /\ d.perfect_window < d.good_window
    /\ d.good_window < d.ok_window

\* C11: every difficulty tier, the one get_difficulty falls back to for an
\* unknown level included, has perfect_window < good_window < ok_window
C11_WindowsOrdered ==
    /\ WindowsOrdered(EASY) /\ WindowsOrdered(MEDIUM) /\ WindowsOrdered(HARD)
    /\ WindowsOrdered(get_difficulty(selected_difficulty))

\* a generator built for a level get_difficulty does not know has run
C11_Witness ==
    /\ selected_difficulty \notin DifficultyNames
    /\ current_difficulty = "MEDIUM"
    /\ WindowsOrdered(get_difficulty(selected_difficulty))
    /\ Len(returned) >= 1

\* the notes the spec gives the simple family at 120 bpm over 9 s
FixedCadence ==
    [i \in 1..18 |-> <<(i - 1) * 500,
                       <<"kick", "snare", "hihat", "snare">>[((i - 1) % 4) + 1]>>]

\* C12: BeatmapGenerator(duration=9, bpm=120, 'simple', variation=0)
\* .generate() returns exactly 18 notes, note i at i x 0.5 s with instrument
\* pattern[i mod 4] of kick, snare, hihat, snare, whatever the random draws
C12_SimpleCadence ==
    generator = BeatmapGenerator(9000, 120, "simple", 0)
        => \A k \in 1..Len(returned) : returned[k] = FixedCadence

\* such a generator has returned under a stream in which random() gave 0.0
C12_Witness ==
    /\ generator = BeatmapGenerator(9000, 120, "simple", 0)
    /\ Len(returned) >= 1
    /\ Len(returned[1]) = 18
    /\ \E j \in 1..Len(rng.draws) : rng.draws[j] = 0

\* C13: loop_beatmap(beatmap, N, D) returns exactly N x len(beatmap) entries,
\* and entry loopIndex x len + j is (timestamp_j + loopIndex x D, instrument_j)
C13_LoopTiling ==
    last_op.op = "loop_beatmap" =>
        LET one == last_op.one_loop
            n == Len(one)
        IN /\ Len(game_beatmap) = last_op.num_loops * n
           /\ \A loopIndex \in 0..(last_op.num_loops - 1) : \A j \in 1..n :
                 game_beatmap[loopIndex * n + j] =
                     <<one[j][1] + loopIndex * last_op.loop_duration, one[j][2]>>

\* a loop of several notes has been tiled more than once
C13_Witness ==
    /\ last_op.op = "loop_beatmap"
    /\ last_op.num_loops >= 2
    /\ Len(last_op.one_loop) >= 2
    /\ Len(game_beatmap) = last_op.num_loops * Len(last_op.one_loop)

NonDecreasing(notes) ==
    \A j \in 1..(Len(notes) - 1) : notes[j][1] <= notes[j + 1][1]

\* C14: the timestamps of a beatmap are non-decreasing: in the list generate()
\* returns, in every pattern family, and in the tiling of the 9 s loop by
\* loop_beatmap with loop_duration 9.0
C14_TimestampsOrdered ==
    /\ \A k \in 1..Len(returned) : NonDecreasing(returned[k])
    /\ (/\ last_op.op = "loop_beatmap"
        /\ generator.duration = BEAT_DURATION
        /\ last_op.loop_duration = BEAT_DURATION) => NonDecreasing(game_beatmap)

\* a complex loop with a fast-succession note has been tiled, and the last
\* note of one loop has the timestamp of the first note of the next
C14_Witness ==
    /\ last_op.op = "loop_beatmap"
    /\ generator.pattern_type = "complex"
    /\ generator.duration = BEAT_DURATION
    /\ last_op.loop_duration = BEAT_DURATION
    /\ last_op.num_loops >= 2
    /\ NonDecreasing(game_beatmap)
    /\ \E j \in 1..(Len(game_beatmap) - 1) :
          game_beatmap[j][1] = game_beatmap[j + 1][1]

\* C15: every note generate() returns has a timestamp t with
\* 0 <= t < duration, in every family, for every variation and every random
\* outcome; with duration = 0 the list is empty
C15_NotesInDuration ==
    \A k \in 1..Len(returned) :
        /\ \A j \in 1..Len(returned[k]) :
              /\ 0 <= returned[k][j][1]
              /\ returned[k][j][1] < generator.duration
        /\ generator.duration = 0 => returned[k] = << >>

\* the list generate() returns under the stream in which no draw is below
\* any variation or the chance of a fast-succession note
RECURSIVE RunToReturn(_, _)
RunToReturn(self, locals) ==
    LET res == GenerateIteration(self, locals, [j \in 1..4 |-> Dull])
    IN IF res.run.pc = "return" THEN res.run.beatmap
       ELSE RunToReturn(self, res.run)

====
